---- MODULE Spec2Model ----
(***************************************************************************)
(* Shortest-path engine: graph validation and adjacency-matrix building   *)
(* (algorithms/graph_utils.py, database/models.py), Dijkstra               *)
(* (algorithms/dijkstra.py) and ant colony optimisation                    *)
(* (algorithms/ant_colony.py).                                             *)
(*                                                                         *)
(* Numbers: edge weights and distances are integers; float('inf') is the   *)
(* number Inf, larger than every finite distance of the model.  Pheromone  *)
(* values are exact rationals <<numerator, denominator>>.                  *)
(***************************************************************************)
EXTENDS Integers, Sequences, FiniteSets, TLC

VARIABLES
    graph_data,        \* the dict handed to validate_graph / Graph.from_dict
    validation,        \* the last result of validate_graph
    adj,               \* the last result of Graph.get_adjacency_matrix
    adjacency_matrix,  \* the matrix a solver was constructed with
    start_idx,         \* node_to_idx[start] of the running solver call
    end_idx,           \* node_to_idx[end] of the running solver call
    dj,                \* the locals of Dijkstra.find_shortest_path
    aco,               \* the fields of an AntColonyOptimization instance
    run,               \* the locals of its find_shortest_path and _construct_solution
    validations,       \* the number of calls of validate_graph so far
    all_results,       \* the last result of Dijkstra.find_all_shortest_paths
    db,                \* the collections graphs and search_results of MongoDB
    api                \* the request a search endpoint handles, and its response

vars == <<graph_data, validation, adj, adjacency_matrix, start_idx, end_idx, dj, aco, run,
          validations, all_results, db, api>>

\* float('inf'), the "no edge" / "no path" sentinel.
Inf == 1000000

\* Python's None in an index-valued slot (previous[], a missing next node).
NoIdx == -1

Min(S) == CHOOSE x \in S : \A y \in S : x <= y

Max(S) == CHOOSE x \in S : \A y \in S : x >= y

Range(s) == {s[i] : i \in DOMAIN s}

SeqsUpTo(S, k) == UNION {[1..m -> S] : m \in 0..k}

(***************************************************************************)
(* database/models.py: Graph.get_adjacency_matrix                          *)
(***************************************************************************)

\* {node.id: i for i, node in enumerate(self.nodes)}: a later node with the
\* same id overwrites the index of an earlier one.
NodeToIdx(nodes) ==
    [id \in Range(nodes) |-> Max({i \in 0..(Len(nodes) - 1) : nodes[i + 1] = id})]

\* [[inf] * n for _ in range(n)] with the diagonal set to 0.
EmptyMatrix(n) ==
    [i \in 0..(n - 1) |-> [j \in 0..(n - 1) |-> IF i = j THEN 0 ELSE Inf]]

\* An edge written in its own orientation only.
SetOneWay(matrix, i, j, w) == [matrix EXCEPT ![i][j] = w]

\* matrix[i][j] = w; matrix[j][i] = w, in this order.
SetBothWays(matrix, i, j, w) ==
    LET m1 == [matrix EXCEPT ![i][j] = w]
    IN  [m1 EXCEPT ![j][i] = w]

\* for edge in self.edges: ... from edge number k on.  An endpoint that is
\* not a key of node_to_idx raises KeyError.
RECURSIVE FillEdges(_, _, _, _)
FillEdges(matrix, node_to_idx, edges, k) ==
    IF k > Len(edges) THEN [raised |-> FALSE, matrix |-> matrix]
    ELSE IF edges[k].from \notin DOMAIN node_to_idx
            \/ edges[k].to \notin DOMAIN node_to_idx
         THEN [raised |-> TRUE, matrix |-> <<>>]
         ELSE FillEdges(SetBothWays(matrix, node_to_idx[edges[k].from],
                                    node_to_idx[edges[k].to], edges[k].weight),
                        node_to_idx, edges, k + 1)

get_adjacency_matrix(nodes, edges) ==
    LET node_to_idx == NodeToIdx(nodes)
        filled == FillEdges(EmptyMatrix(Len(nodes)), node_to_idx, edges, 1)
    IN  [called |-> TRUE, raised |-> filled.raised,
         node_to_idx |-> IF filled.raised THEN <<>> ELSE node_to_idx,
         matrix |-> filled.matrix]

(***************************************************************************)
(* database/models.py: Graph.add_node, Graph.add_edge                      *)
(***************************************************************************)

\* Graph(name): no nodes, no edges.
EmptyGraph == [has_nodes |-> TRUE, has_edges |-> TRUE, nodes |-> <<>>, edges |-> <<>>]

\* if not any(n.id == node.id for n in self.nodes): self.nodes.append(node)
add_node(g, id) ==
    IF ~(\E k \in 1..Len(g.nodes) : g.nodes[k] = id)
    THEN [g EXCEPT !.nodes = Append(@, id)]
    ELSE g

\* An add_edge without the test of the endpoints.
add_edge_unchecked(g, edge) == [g EXCEPT !.edges = Append(@, edge)]

\* node_ids = {n.id for n in self.nodes}; the edge is appended when both
\* endpoints are in it.
add_edge(g, edge) ==
    LET node_ids == {g.nodes[k] : k \in 1..Len(g.nodes)}
    IN  IF edge.from \in node_ids /\ edge.to \in node_ids
        THEN [g EXCEPT !.edges = Append(@, edge)]
        ELSE g

(***************************************************************************)
(* algorithms/graph_utils.py: GraphUtils.validate_graph                    *)
(***************************************************************************)

Msg(kind, node) == [kind |-> kind, node |-> node]

\* The edge checks done category by category: all endpoints first, then all
\* weights.
CheckEdgesByCategory(edges, node_ids_set, k) ==
    LET dangling == {i \in k..Len(edges) :
                        edges[i].from \notin node_ids_set \/ edges[i].to \notin node_ids_set}
        first == Min(dangling)
    IN  IF dangling # {}
        THEN IF edges[first].from \notin node_ids_set
             THEN Msg("no_node", edges[first].from)
             ELSE Msg("no_node", edges[first].to)
        ELSE IF \E i \in k..Len(edges) : edges[i].weight <= 0
        THEN Msg("weight", "")
        ELSE Msg("none", "")

\* for edge in edges: the three checks of one edge, then the next edge.
RECURSIVE CheckEdges(_, _, _)
CheckEdges(edges, node_ids_set, k) ==
    IF k > Len(edges) THEN Msg("none", "")
    ELSE IF edges[k].from \notin node_ids_set THEN Msg("no_node", edges[k].from)
    ELSE IF edges[k].to \notin node_ids_set THEN Msg("no_node", edges[k].to)
    ELSE IF edges[k].weight <= 0 THEN Msg("weight", "")
    ELSE CheckEdges(edges, node_ids_set, k + 1)

\* Adjacency lists that follow an edge from its 'from' to its 'to' only.
RECURSIVE AdjacencyListsDirected(_, _, _)
AdjacencyListsDirected(adjacency, edges, k) ==
    IF k > Len(edges) THEN adjacency
    ELSE AdjacencyListsDirected(
             [adjacency EXCEPT ![edges[k].from] = Append(@, edges[k].to)], edges, k + 1)

\* adjacency = {id: []}; each edge appends to to adjacency[from] and from to
\* adjacency[to].
RECURSIVE AdjacencyLists(_, _, _)
AdjacencyLists(adjacency, edges, k) ==
    IF k > Len(edges) THEN adjacency
    ELSE LET a1 == [adjacency EXCEPT ![edges[k].from] = Append(@, edges[k].to)]
             a2 == [a1 EXCEPT ![edges[k].to] = Append(@, edges[k].from)]
         IN  AdjacencyLists(a2, edges, k + 1)

\* while stack: current = stack.pop(); skip a visited one; visit;
\* stack.extend(adjacency[current]).
RECURSIVE DfsVisited(_, _, _)
DfsVisited(adjacency, stack, visited) ==
    IF stack = <<>> THEN visited
    ELSE LET current == stack[Len(stack)]
             rest == SubSeq(stack, 1, Len(stack) - 1)
         IN  IF current \in visited
             THEN DfsVisited(adjacency, rest, visited)
             ELSE DfsVisited(adjacency, rest \o adjacency[current],
                             visited \cup {current})

is_connected(nodes, edges) ==
    IF nodes = <<>> THEN FALSE
    ELSE LET adjacency == AdjacencyLists([id \in Range(nodes) |-> <<>>], edges, 1)
             visited == DfsVisited(adjacency, <<nodes[1]>>, {})
         IN  Cardinality(visited) = Len(nodes)

validate_graph(g) ==
    IF ~g.has_nodes \/ ~g.has_edges
    THEN [called |-> TRUE, ok |-> FALSE, message |-> Msg("missing", "")]
    ELSE IF Len(g.nodes) < 2
    THEN [called |-> TRUE, ok |-> FALSE, message |-> Msg("few_nodes", "")]
    ELSE IF Len(g.nodes) # Cardinality(Range(g.nodes))
    THEN [called |-> TRUE, ok |-> FALSE, message |-> Msg("duplicate", "")]
    ELSE LET bad == CheckEdges(g.edges, Range(g.nodes), 1)
         IN  IF bad.kind # "none"
             THEN [called |-> TRUE, ok |-> FALSE, message |-> bad]
             ELSE IF ~is_connected(g.nodes, g.edges)
             THEN [called |-> TRUE, ok |-> FALSE, message |-> Msg("disconnected", "")]
             ELSE [called |-> TRUE, ok |-> TRUE, message |-> Msg("valid", "")]

\* A validation whose search pops the vertices off the list of the caller.
validate_graph_consuming(g) ==
    [g EXCEPT !.nodes = IF @ = <<>> THEN @ ELSE Tail(@)]

\* The dict of the caller after validate_graph(g): validate_graph and
\* _is_connected read it and write to their own locals only (node_ids,
\* node_ids_set, adjacency, visited, stack).
validate_graph_argument(g) == g

(***************************************************************************)
(* algorithms/graph_utils.py: GraphUtils.generate_random_graph             *)
(***************************************************************************)

\* f'node_{i}'
NodeId(i) == "node_" \o ToString(i)

\* for i in range(num_nodes): nodes.append({'id': f'node_{i}', ...}); label,
\* x and y are read by no operation.
GeneratedNodes(num_nodes) == [k \in 1..num_nodes |-> NodeId(k - 1)]

\* for i in range(num_nodes): for j in range(i + 1, num_nodes): from the pair
\* (i, j) on.  draw[<<i, j>>] is 0 when random.random() < connectivity is
\* false for the pair, and the rounded weight drawn for it otherwise.
RECURSIVE DrawEdges(_, _, _, _)
DrawEdges(num_nodes, draw, i, j) ==
    IF i >= num_nodes THEN <<>>
    ELSE IF j >= num_nodes THEN DrawEdges(num_nodes, draw, i + 1, i + 2)
    ELSE (IF draw[<<i, j>>] # 0
          THEN <<[from |-> NodeId(i), to |-> NodeId(j), weight |-> draw[<<i, j>>]]>>
          ELSE <<>>) \o DrawEdges(num_nodes, draw, i, j + 1)

\* any(e['from'] == id or e['to'] == id for e in edges)
HasEdge(edges, id) == \E k \in 1..Len(edges) : edges[k].from = id \/ edges[k].to = id

\* for i in range(num_nodes - 1): from node i on; a node with no edge in the
\* list as it is by then gets an edge to the next node, of weight fix[i].
RECURSIVE RepairChain(_, _, _, _)
RepairChain(num_nodes, edges, fix, i) ==
    IF i >= num_nodes - 1 THEN edges
    ELSE IF ~HasEdge(edges, NodeId(i))
    THEN RepairChain(num_nodes,
                     Append(edges, [from |-> NodeId(i), to |-> NodeId(i + 1),
                                    weight |-> fix[i]]),
                     fix, i + 1)
    ELSE RepairChain(num_nodes, edges, fix, i + 1)

generate_random_graph(num_nodes, draw, fix) ==
    LET edges == DrawEdges(num_nodes, draw, 0, 1)
    IN  [has_nodes |-> TRUE, has_edges |-> TRUE,
         nodes |-> GeneratedNodes(num_nodes),
         edges |-> IF Len(edges) < num_nodes - 1
                   THEN RepairChain(num_nodes, edges, fix, 0)
                   ELSE edges]

(***************************************************************************)
(* algorithms/dijkstra.py: Dijkstra.find_shortest_path                     *)
(***************************************************************************)

\* idx_to_node of the solvers: index i is the (i+1)-th name.
NodeNames == <<"A", "B", "C", "D", "E">>

idx_to_node(i) == NodeNames[i + 1]

\* node_to_idx of a solver: the inverse of idx_to_node.
node_to_idx(id) == CHOOSE i \in 0..(Len(NodeNames) - 1) : NodeNames[i + 1] = id

\* calculate_path_distance, from edge i of the path on: inf at the first
\* missing edge, else the sum of the weights.
RECURSIVE PathDistanceFrom(_, _, _, _)
PathDistanceFrom(path, matrix, i, total_distance) ==
    IF i > Len(path) - 1 THEN total_distance
    ELSE LET distance == matrix[node_to_idx(path[i])][node_to_idx(path[i + 1])]
         IN  IF distance = Inf THEN Inf
             ELSE PathDistanceFrom(path, matrix, i + 1, total_distance + distance)

\* GraphUtils.calculate_path_distance(path, adjacency_matrix, node_to_idx)
calculate_path_distance(path, matrix) ==
    IF Len(path) < 2 THEN 0 ELSE PathDistanceFrom(path, matrix, 1, 0)

\* self.num_nodes = len(adjacency_matrix)
NumNodes(matrix) == Cardinality(DOMAIN matrix)

\* A pop that takes the entry of the least vertex index, whatever its distance.
HeapMinByVertex(pq) ==
    CHOOSE e \in pq : \A f \in pq : e[2] < f[2] \/ (e[2] = f[2] /\ e[1] <= f[1])

\* heapq.heappop on (distance, vertex) tuples: the least tuple, by distance
\* and then by vertex index.
HeapMin(pq) ==
    CHOOSE e \in pq : \A f \in pq : e[1] < f[1] \/ (e[1] = f[1] /\ e[2] <= f[2])

\* A relaxation that forgets the distance of the popped vertex.
NewDistanceEdgeOnly(current_dist, edge_weight) == edge_weight

\* new_distance = current_dist + edge_weight
NewDistance(current_dist, edge_weight) == current_dist + edge_weight

\* for neighbor in range(self.num_nodes): ... from vertex `neighbor` on.
RECURSIVE RelaxNeighbors(_, _, _, _, _)
RelaxNeighbors(matrix, st, current, current_dist, neighbor) ==
    IF neighbor >= NumNodes(matrix) THEN st
    ELSE IF neighbor \in st.visited
         THEN RelaxNeighbors(matrix, st, current, current_dist, neighbor + 1)
         ELSE LET edge_weight == matrix[current][neighbor]
                  new_distance == NewDistance(current_dist, edge_weight)
              IN  IF edge_weight # Inf /\ new_distance < st.distances[neighbor]
                  THEN RelaxNeighbors(matrix,
                           [st EXCEPT !.distances[neighbor] = new_distance,
                                      !.previous[neighbor] = current,
                                      !.pq = @ \cup {<<new_distance, neighbor>>}],
                           current, current_dist, neighbor + 1)
                  ELSE RelaxNeighbors(matrix, st, current, current_dist, neighbor + 1)

\* The walk back over previous[] from `current`, left in the order of the walk.
RECURSIVE WalkBackUnreversed(_, _)
WalkBackUnreversed(previous, current) ==
    IF current = NoIdx THEN <<>>
    ELSE <<idx_to_node(current)>> \o WalkBackUnreversed(previous, previous[current])

\* The walk back over previous[] from `current`, already reversed.
RECURSIVE WalkBack(_, _)
WalkBack(previous, current) ==
    IF current = NoIdx THEN <<>>
    ELSE Append(WalkBack(previous, previous[current]), idx_to_node(current))

\* A reconstruction without the "no predecessor" test.
reconstruct_path_unchecked(previous, s, e) == WalkBack(previous, e)

reconstruct_path(previous, s, e) ==
    IF previous[e] = NoIdx /\ s # e THEN <<>> ELSE WalkBack(previous, e)

\* distances, previous, pq and visited as find_shortest_path initialises them.
DijkstraLocals(matrix, s) ==
    [pc |-> "loop",
     distances |-> [i \in DOMAIN matrix |-> IF i = s THEN 0 ELSE Inf],
     previous |-> [i \in DOMAIN matrix |-> NoIdx],
     pq |-> {<<0, s>>},
     visited |-> {},
     path |-> <<>>,
     distance |-> Inf]

\* One iteration of `while pq:` (pq not empty): pop the least entry; skip a
\* visited vertex; else visit it, break at the end vertex, else relax.
DijkstraIteration(matrix, e, st) ==
    LET top == HeapMin(st.pq)
        current_dist == top[1]
        current == top[2]
        popped == [st EXCEPT !.pq = @ \ {top}]
    IN  IF current \in st.visited THEN popped
        ELSE LET visiting == [popped EXCEPT !.visited = @ \cup {current}]
             IN  IF current = e THEN [visiting EXCEPT !.pc = "exit"]
                 ELSE RelaxNeighbors(matrix, visiting, current, current_dist, 0)

\* After the loop: path = self._reconstruct_path(...), distance = distances[end].
DijkstraResult(st, s, e) ==
    [st EXCEPT !.pc = "done",
               !.path = reconstruct_path(st.previous, s, e),
               !.distance = st.distances[e]]

RECURSIVE DijkstraLoop(_, _, _)
DijkstraLoop(matrix, e, st) ==
    IF st.pc = "loop" /\ st.pq # {}
    THEN DijkstraLoop(matrix, e, DijkstraIteration(matrix, e, st))
    ELSE st

\* Dijkstra(matrix, ...).find_shortest_path(start, end) as one function.
dijkstra_find_shortest_path(matrix, s, e) ==
    DijkstraResult(DijkstraLoop(matrix, e, DijkstraLocals(matrix, s)), s, e)

\* One iteration of `while pq:` of find_all_shortest_paths: pop the least
\* entry; skip a visited vertex; else visit it and relax.  There is no break.
AllPathsIteration(matrix, st) ==
    LET top == HeapMin(st.pq)
        current_dist == top[1]
        current == top[2]
        popped == [st EXCEPT !.pq = @ \ {top}]
    IN  IF current \in st.visited THEN popped
        ELSE RelaxNeighbors(matrix, [popped EXCEPT !.visited = @ \cup {current}],
                            current, current_dist, 0)

RECURSIVE AllPathsLoop(_, _)
AllPathsLoop(matrix, st) ==
    IF st.pq # {} THEN AllPathsLoop(matrix, AllPathsIteration(matrix, st)) ELSE st

\* A result that has an entry for the start vertex too.
find_all_shortest_paths_with_start(matrix, s) ==
    LET st == AllPathsLoop(matrix, DijkstraLocals(matrix, s))
    IN  [node_id \in {idx_to_node(idx) : idx \in DOMAIN matrix} |->
            [path |-> reconstruct_path(st.previous, s, node_to_idx(node_id)),
             distance |-> st.distances[node_to_idx(node_id)]]]

\* Dijkstra(matrix, ...).find_all_shortest_paths(start): the dict
\* {node_id: (path, distance)} over the vertices other than start.
find_all_shortest_paths(matrix, s) ==
    LET st == AllPathsLoop(matrix, DijkstraLocals(matrix, s))
    IN  [node_id \in {idx_to_node(idx) : idx \in DOMAIN matrix \ {s}} |->
            [path |-> reconstruct_path(st.previous, s, node_to_idx(node_id)),
             distance |-> st.distances[node_to_idx(node_id)]]]

(***************************************************************************)
(* algorithms/ant_colony.py: AntColonyOptimization                         *)
(***************************************************************************)

\* Exact rationals <<numerator, denominator>>, denominator > 0, in lowest terms.
RECURSIVE GCD(_, _)
GCD(a, b) == IF b = 0 THEN a ELSE GCD(b, a % b)

Abs(x) == IF x < 0 THEN -x ELSE x

Rat(n, d) == LET g == GCD(Abs(n), d) IN <<n \div g, d \div g>>

\* The sum, over the least common denominator.
RatAdd(a, b) ==
    LET g == GCD(a[2], b[2])
    IN  Rat(a[1] * (b[2] \div g) + b[1] * (a[2] \div g), (a[2] \div g) * b[2])

\* The product, cancelling across before multiplying.
RatMul(a, b) ==
    LET g1 == GCD(Abs(a[1]), b[2])
        g2 == GCD(Abs(b[1]), a[2])
    IN  Rat((a[1] \div g1) * (b[1] \div g2), (a[2] \div g2) * (b[2] \div g1))

RatLess(a, b) ==
    LET g == GCD(a[2], b[2])
    IN  a[1] * (b[2] \div g) < b[1] * (a[2] \div g)

\* np.clip bounds of the pheromone: 0.1 and 10.0.
PheromoneMin == <<1, 10>>

PheromoneMax == <<10, 1>>

\* iteration % 10 == 0: the sampling period of the history.
HistoryEvery == 10

\* np.ones((n, n))
InitialPheromone(matrix) == [i \in DOMAIN matrix |-> [j \in DOMAIN matrix |-> <<1, 1>>]]

\* self.heuristic: 1 / weight on an edge, 0 elsewhere.
Heuristic(matrix) ==
    [i \in DOMAIN matrix |-> [j \in DOMAIN matrix |->
        IF matrix[i][j] # Inf /\ i # j THEN Rat(1, matrix[i][j]) ELSE <<0, 1>>]]

\* AntColonyOptimization(matrix, ..., **params): the instance after __init__.
NewColony(matrix, params) ==
    [num_ants |-> params.num_ants, alpha |-> params.alpha, beta |-> params.beta,
     evaporation |-> params.evaporation, iterations |-> params.iterations,
     q |-> params.q, pheromone |-> InitialPheromone(matrix), history |-> <<>>]

\* x ** exponent > 0, for x >= 0 (x ** 0 is 1).
PowPositive(x, exponent) == exponent = 0 \/ x[1] > 0

\* Candidates that leave out the test for an edge.
UnvisitedAnyVertex(matrix, current, visited) ==
    {i \in DOMAIN matrix : i \notin visited}

\* unvisited = [i for i in range(n) if i not in visited and matrix[current][i] != inf]
Unvisited(matrix, current, visited) ==
    {i \in DOMAIN matrix : i \notin visited /\ matrix[current][i] # Inf}

\* The values _select_next_node can return: None when there is no candidate;
\* else a candidate np.random.choice can draw, one whose probability
\* pheromone ** alpha * heuristic ** beta (* 2 at the end vertex) / total is
\* positive, every candidate having probability 1 / len when total == 0.
select_next_node(matrix, colony, current, visited) ==
    LET unvisited == Unvisited(matrix, current, visited)
        positive == {node \in unvisited :
                        /\ PowPositive(colony.pheromone[current][node], colony.alpha)
                        /\ PowPositive(Heuristic(matrix)[current][node], colony.beta)}
    IN  IF unvisited = {} THEN {NoIdx}
        ELSE IF positive = {} THEN unvisited
        ELSE positive

\* A construction that starts with the visited set of the ant before it.
StartAntKeepVisited(r, s) ==
    [r EXCEPT !.pc = "ant", !.path = <<s>>, !.visited = @ \cup {s}, !.current = s,
              !.total_distance = 0]

\* path = [start_idx]; visited = {start_idx}; current = start_idx; total = 0.0
StartAnt(r, s) ==
    [r EXCEPT !.pc = "ant", !.path = <<s>>, !.visited = {s}, !.current = s,
              !.total_distance = 0]

\* A total that keeps only the last edge.
AddEdgeDistanceLast(total_distance, edge_distance) == edge_distance

\* total_distance += edge_distance
AddEdgeDistance(total_distance, edge_distance) == total_distance + edge_distance

\* One pass of the while loop of _construct_solution that moves to next_node.
AntStep(matrix, r, next_node) ==
    [r EXCEPT !.total_distance = AddEdgeDistance(@, matrix[r.current][next_node]),
              !.path = Append(@, next_node),
              !.visited = @ \cup {next_node},
              !.current = next_node]

\* A dead end that returns what the ant has walked so far.
DeadEndPartial(r) == [path |-> r.path, distance |-> r.total_distance]

\* if next_node is None: return [], float('inf')
DeadEndResult(r) == [path |-> <<>>, distance |-> Inf]

\* After the loop: [], inf unless the ant stands on the end vertex.
LoopEndResult(r, e) ==
    IF r.current # e THEN [path |-> <<>>, distance |-> Inf]
    ELSE [path |-> r.path, distance |-> r.total_distance]

\* A record that replaces the running best by a longer path only.
RecordAntWorse(r, s, num_ants, result) ==
    LET better == result.path # <<>> /\ result.distance > r.best_distance
        r1 == [r EXCEPT !.best_path = IF better THEN result.path ELSE @,
                        !.best_distance = IF better THEN result.distance ELSE @,
                        !.all_paths = Append(@, result.path),
                        !.all_distances = Append(@, result.distance),
                        !.ant = @ + 1]
    IN  IF r1.ant < num_ants THEN StartAnt(r1, s)
        ELSE [r1 EXCEPT !.pc = "update", !.path = <<>>, !.visited = {},
                        !.current = NoIdx, !.total_distance = 0]

\* find_shortest_path, after an ant has returned (path, distance): update the
\* running best, append to all_paths / all_distances, go on to the next ant
\* or, after the last one, to the pheromone update.
RecordAnt(r, s, num_ants, result) ==
    LET better == result.path # <<>> /\ result.distance < r.best_distance
        r1 == [r EXCEPT !.best_path = IF better THEN result.path ELSE @,
                        !.best_distance = IF better THEN result.distance ELSE @,
                        !.all_paths = Append(@, result.path),
                        !.all_distances = Append(@, result.distance),
                        !.ant = @ + 1]
    IN  IF r1.ant < num_ants THEN StartAnt(r1, s)
        ELSE [r1 EXCEPT !.pc = "update", !.path = <<>>, !.visited = {},
                        !.current = NoIdx, !.total_distance = 0]

\* self.pheromone *= (1 - self.evaporation)
Evaporate(pheromone, evaporation) ==
    [i \in DOMAIN pheromone |-> [j \in DOMAIN pheromone |->
        RatMul(pheromone[i][j], RatAdd(<<1, 1>>, <<-evaporation[1], evaporation[2]>>))]]

\* A deposit on the orientation the ant walked only.
RECURSIVE DepositPathOneWay(_, _, _, _)
DepositPathOneWay(pheromone, path, deposit, i) ==
    IF i > Len(path) - 1 THEN pheromone
    ELSE DepositPathOneWay([pheromone EXCEPT ![path[i]][path[i + 1]] = RatAdd(@, deposit)],
                           path, deposit, i + 1)

\* for i in range(len(path) - 1): both orientations of edge i get the deposit.
RECURSIVE DepositPath(_, _, _, _)
DepositPath(pheromone, path, deposit, i) ==
    IF i > Len(path) - 1 THEN pheromone
    ELSE LET from_node == path[i]
             to_node == path[i + 1]
             p1 == [pheromone EXCEPT ![from_node][to_node] = RatAdd(@, deposit)]
             p2 == [p1 EXCEPT ![to_node][from_node] = RatAdd(@, deposit)]
         IN  DepositPath(p2, path, deposit, i + 1)

\* for path, distance in zip(all_paths, all_distances): from ant k on.  An
\* empty path or an infinite distance is skipped; self.q / distance raises
\* ZeroDivisionError for the distance 0.0 of a path without edges.
RECURSIVE DepositAll(_, _, _, _, _)
DepositAll(pheromone, q, all_paths, all_distances, k) ==
    IF k > Len(all_paths) THEN [raised |-> FALSE, pheromone |-> pheromone]
    ELSE IF all_paths[k] = <<>> \/ all_distances[k] = Inf
         THEN DepositAll(pheromone, q, all_paths, all_distances, k + 1)
         ELSE IF all_distances[k] = 0
              THEN [raised |-> TRUE, pheromone |-> pheromone]
              ELSE DepositAll(
                       DepositPath(pheromone, all_paths[k],
                                   Rat(q[1], q[2] * all_distances[k]), 1),
                       q, all_paths, all_distances, k + 1)

\* np.clip(self.pheromone, 0.1, 10.0)
Clip(pheromone) ==
    [i \in DOMAIN pheromone |-> [j \in DOMAIN pheromone |->
        IF RatLess(pheromone[i][j], PheromoneMin) THEN PheromoneMin
        ELSE IF RatLess(PheromoneMax, pheromone[i][j]) THEN PheromoneMax
        ELSE pheromone[i][j]]]

\* _update_pheromones: evaporate in place, deposit, clip.  When the deposit
\* raises, self.pheromone stays as the in-place steps left it.
update_pheromones(colony, all_paths, all_distances) ==
    LET evaporated == Evaporate(colony.pheromone, colony.evaporation)
        deposited == DepositAll(evaporated, colony.q, all_paths, all_distances, 1)
    IN  IF deposited.raised THEN deposited
        ELSE [raised |-> FALSE, pheromone |-> Clip(deposited.pheromone)]

RECURSIVE SumSeq(_, _)
SumSeq(xs, k) == IF k > Len(xs) THEN 0 ELSE xs[k] + SumSeq(xs, k + 1)

\* np.mean([d for d in all_distances if d != inf]): <<0, 0>> stands for the
\* nan numpy returns (with a warning) for the empty list.
MeanFinite(all_distances) ==
    LET finite == SelectSeq(all_distances, LAMBDA d : d # Inf)
    IN  IF finite = <<>> THEN <<0, 0>> ELSE Rat(SumSeq(finite, 1), Len(finite))

\* A conversion to node ids that hands the path back end first.
PathIdsReversed(path) == [i \in DOMAIN path |-> idx_to_node(path[Len(path) + 1 - i])]

\* [self.idx_to_node[idx] for idx in path]
PathIds(path) == [i \in DOMAIN path |-> idx_to_node(path[i])]

\* The history entry of an iteration.
HistoryEntry(r) ==
    [iteration |-> r.iteration, best_distance |-> r.best_distance,
     best_path |-> PathIds(r.best_path), avg_distance |-> MeanFinite(r.all_distances)]

\* A sampling that leaves out the last iteration.
SampledEveryTenth(iteration, iterations) == iteration % HistoryEvery = 0

\* if iteration % 10 == 0 or iteration == self.iterations - 1
Sampled(iteration, iterations) ==
    iteration % HistoryEvery = 0 \/ iteration = iterations - 1

\* A return that hands back the path of the last ant of the last iteration.
AfterUpdateLastAnt(r, s, iterations) ==
    LET r1 == [r EXCEPT !.iteration = @ + 1, !.ant = 0,
                        !.all_paths = <<>>, !.all_distances = <<>>]
    IN  IF r1.iteration < iterations THEN StartAnt(r1, s)
        ELSE [r1 EXCEPT !.pc = "done",
                        !.ret_path = PathIds(r.all_paths[Len(r.all_paths)]),
                        !.ret_distance = r.all_distances[Len(r.all_distances)]]

\* find_shortest_path after a pheromone update that did not raise: the next
\* iteration, or the return after the last one.
AfterUpdate(r, s, iterations) ==
    LET r1 == [r EXCEPT !.iteration = @ + 1, !.ant = 0,
                        !.all_paths = <<>>, !.all_distances = <<>>]
    IN  IF r1.iteration < iterations THEN StartAnt(r1, s)
        ELSE [r1 EXCEPT !.pc = "done", !.ret_path = PathIds(r.best_path),
                        !.ret_distance = r.best_distance]

(***************************************************************************)
(* Inputs of the graph operations                                          *)
(***************************************************************************)

\* The longest edge list handed to validate_graph / get_adjacency_matrix.
MaxGraphEdges == 2

\* The largest number of calls of validate_graph on one dict.
MaxValidations == 2

NodeIds == {"A", "B", "C"}

\* Node lists: every list over NodeIds, repeated ids included, no longer
\* than the number of ids.  (label, x, y of a node are read by neither
\* operation: a node is its id.)
NodeLists == SeqsUpTo(NodeIds, Cardinality(NodeIds))

\* Endpoints of input edges: both orientations of a pair, a chain, a
\* self-loop, and "Z", an id that is never a node.
EdgeEnds ==
    {<<"A", "B">>, <<"B", "A">>, <<"B", "C">>, <<"A", "A">>, <<"A", "Z">>, <<"Z", "B">>}

\* Weights of input edges: one non-positive, two distinct positive ones.
EdgeWeights == {0, 1, 2}

EdgeRecords ==
    {[from |-> p[1], to |-> p[2], weight |-> w] : p \in EdgeEnds, w \in EdgeWeights}

GraphInputs ==
    {[has_nodes |-> TRUE, has_edges |-> TRUE, nodes |-> ns, edges |-> es] :
        ns \in NodeLists, es \in SeqsUpTo(EdgeRecords, MaxGraphEdges)}
    \cup {[has_nodes |-> hn, has_edges |-> he, nodes |-> <<>>, edges |-> <<>>] :
            hn \in BOOLEAN, he \in BOOLEAN}

NotValidated == [called |-> FALSE, ok |-> FALSE, message |-> Msg("none", "")]

NotBuilt == [called |-> FALSE, raised |-> FALSE, node_to_idx |-> <<>>, matrix |-> <<>>]

NoGraph == [has_nodes |-> FALSE, has_edges |-> FALSE, nodes |-> <<>>, edges |-> <<>>]

\* No AntColonyOptimization instance.
NoColony ==
    [num_ants |-> 0, alpha |-> 0, beta |-> 0, evaporation |-> <<0, 1>>, iterations |-> 0,
     q |-> <<0, 1>>, pheromone |-> <<>>, history |-> <<>>]

\* No call of AntColonyOptimization.find_shortest_path yet.
IdleRun ==
    [pc |-> "idle", calls |-> 0, iteration |-> 0, ant |-> 0,
     best_path |-> <<>>, best_distance |-> Inf,
     all_paths |-> <<>>, all_distances |-> <<>>,
     path |-> <<>>, visited |-> {}, current |-> NoIdx, total_distance |-> 0,
     ret_path |-> <<>>, ret_distance |-> Inf]

IdleDijkstra ==
    [pc |-> "idle", distances |-> <<>>, previous |-> <<>>, pq |-> {}, visited |-> {},
     path |-> <<>>, distance |-> Inf]

\* No call of Dijkstra.find_all_shortest_paths yet.
NoAllResults == [called |-> FALSE, start |-> NoIdx, results |-> <<>>]

\* MongoDB with both collections empty.  A document of graphs is its _id and
\* the stored graph; a document of search_results its _id, the graph_id it
\* was saved for and the saved fields.  ObjectIds are numbered in the order
\* of their creation, one numbering per collection.
EmptyDb == [graphs |-> <<>>, search_results |-> <<>>, next_graph |-> 1, next_result |-> 1]

\* No request in a search endpoint.
IdleApi ==
    [pc |-> "idle", requests |-> 0, endpoint |-> "", request |-> <<>>,
     saved |-> 0, status |-> 0, body |-> <<>>]

(***************************************************************************)
(* Specification of the graph operations: any input, then validate_graph   *)
(* and get_adjacency_matrix in any order, any number of times.             *)
(***************************************************************************)

InitGraph ==
    /\ graph_data \in GraphInputs
    /\ validation = NotValidated
    /\ adj = NotBuilt
    /\ adjacency_matrix = <<>>
    /\ start_idx = NoIdx
    /\ end_idx = NoIdx
    /\ dj = IdleDijkstra
    /\ aco = NoColony
    /\ run = IdleRun
    /\ validations = 0
    /\ all_results = NoAllResults
    /\ db = EmptyDb
    /\ api = IdleApi

ValidateGraph ==
    /\ validations < MaxValidations
    /\ validation' = validate_graph(graph_data)
    /\ graph_data' = validate_graph_argument(graph_data)
    /\ validations' = validations + 1
    /\ UNCHANGED <<adj, adjacency_matrix, start_idx, end_idx, dj, aco, run,
                 all_results, db, api>>

\* Graph.from_dict(data).get_adjacency_matrix(): from_dict reads data['nodes']
\* and data['edges'], so both must be there.
BuildMatrix ==
    /\ graph_data.has_nodes /\ graph_data.has_edges
    /\ adj' = get_adjacency_matrix(graph_data.nodes, graph_data.edges)
    /\ UNCHANGED <<graph_data, validation, adjacency_matrix, start_idx, end_idx, dj, aco, run,
                 validations, all_results, db, api>>

NextGraph == ValidateGraph \/ BuildMatrix

SpecGraph == InitGraph /\ [][NextGraph]_vars

(***************************************************************************)
(* Specification of the generator: generate_random_graph with any number   *)
(* of nodes from 2 to MaxGenNodes and any outcome of its random draws,     *)
(* then validate_graph and get_adjacency_matrix on the graph it returned.  *)
(***************************************************************************)

\* The largest num_nodes.
MaxGenNodes == 4

\* The weights random.uniform(min_weight, max_weight) gives, rounded, for
\* min_weight > 0: two distinct positive ones.
GenWeights == {1, 2}

GenPairs(num_nodes) ==
    {p \in (0..(num_nodes - 1)) \X (0..(num_nodes - 1)) : p[1] < p[2]}

InitGenerate ==
    /\ graph_data = NoGraph
    /\ validation = NotValidated
    /\ adj = NotBuilt
    /\ adjacency_matrix = <<>>
    /\ start_idx = NoIdx
    /\ end_idx = NoIdx
    /\ dj = IdleDijkstra
    /\ aco = NoColony
    /\ run = IdleRun
    /\ validations = 0
    /\ all_results = NoAllResults
    /\ db = EmptyDb
    /\ api = IdleApi

\* graph_data = GraphUtils.generate_random_graph(num_nodes, connectivity)
GenerateRandomGraph(num_nodes, draw, fix) ==
    /\ graph_data = NoGraph
    /\ graph_data' = generate_random_graph(num_nodes, draw, fix)
    /\ UNCHANGED <<validation, adj, adjacency_matrix, start_idx, end_idx, dj, aco, run,
                 validations, all_results, db, api>>

NextGenerate ==
    \/ /\ graph_data = NoGraph
       /\ \E num_nodes \in 2..MaxGenNodes :
             \E draw \in [GenPairs(num_nodes) -> {0} \cup GenWeights],
                fix \in [0..(num_nodes - 2) -> GenWeights] :
                GenerateRandomGraph(num_nodes, draw, fix)
    \/ graph_data # NoGraph /\ ValidateGraph
    \/ BuildMatrix

SpecGenerate == InitGenerate /\ [][NextGenerate]_vars

(***************************************************************************)
(* Specification of the way of a graph from the request to the solver: any *)
(* input dict whose node list is in the order of the solver's index, then  *)
(* validate_graph, Graph.from_dict(...).get_adjacency_matrix() and         *)
(* Dijkstra(matrix, node_to_idx).find_shortest_path(start, end) for any    *)
(* two ids of the matrix.                                                  *)
(***************************************************************************)

\* The longest edge list of an input dict.
MaxPipelineEdges == 2

\* Node lists: the first one, two or three names of the solver's index, and
\* a list with a repeated id.
PipelineNodeLists == {<<"A">>, <<"A", "B">>, <<"A", "B", "C">>, <<"A", "A">>}

PipelineEdgeEnds ==
    {<<"A", "B">>, <<"B", "A">>, <<"B", "C">>, <<"A", "C">>, <<"A", "A">>, <<"A", "Z">>}

\* Weights of input edges: a non-positive one, a positive one, and the float
\* inf that json.loads gives for a number beyond the range of a double.
PipelineWeights == {0, 1, Inf}

PipelineInputs ==
    {[has_nodes |-> TRUE, has_edges |-> TRUE, nodes |-> ns, edges |-> es] :
        ns \in PipelineNodeLists,
        es \in SeqsUpTo({[from |-> p[1], to |-> p[2], weight |-> w] :
                            p \in PipelineEdgeEnds, w \in PipelineWeights},
                        MaxPipelineEdges)}

InitPipeline ==
    /\ graph_data \in PipelineInputs
    /\ validation = NotValidated
    /\ adj = NotBuilt
    /\ adjacency_matrix = <<>>
    /\ start_idx = NoIdx
    /\ end_idx = NoIdx
    /\ dj = IdleDijkstra
    /\ aco = NoColony
    /\ run = IdleRun
    /\ validations = 0
    /\ all_results = NoAllResults
    /\ db = EmptyDb
    /\ api = IdleApi

\* dijkstra = Dijkstra(matrix, node_to_idx);
\* dijkstra.find_shortest_path(start, end) on the matrix built from the dict.
PipelineSolve(start, end) ==
    /\ adj.called /\ ~adj.raised
    /\ dj.pc = "idle"
    /\ start \in DOMAIN adj.node_to_idx /\ end \in DOMAIN adj.node_to_idx
    /\ adjacency_matrix' = adj.matrix
    /\ start_idx' = adj.node_to_idx[start]
    /\ end_idx' = adj.node_to_idx[end]
    /\ dj' = dijkstra_find_shortest_path(adj.matrix, adj.node_to_idx[start],
                                         adj.node_to_idx[end])
    /\ UNCHANGED <<graph_data, validation, adj, aco, run, validations, all_results, db, api>>

NextPipeline ==
    \/ ValidateGraph
    \/ BuildMatrix
    \/ \E start \in Range(graph_data.nodes), end \in Range(graph_data.nodes) :
          PipelineSolve(start, end)

SpecPipeline == InitPipeline /\ [][NextPipeline]_vars

(***************************************************************************)
(* Specification of a Graph built step by step: it starts empty, and       *)
(* add_node, add_edge (up to MaxBuildEdges stored edges) and               *)
(* get_adjacency_matrix are called on it in any order.                     *)
(***************************************************************************)

\* The largest number of stored edges.
MaxBuildEdges == 2

BuildIds == {"A", "B", "C"}

\* Edges handed to add_edge: a ring over the ids and a self-loop, of two
\* weights.
BuildEdges ==
    {[from |-> p[1], to |-> p[2], weight |-> w] :
        p \in {<<"A", "B">>, <<"B", "C">>, <<"C", "A">>, <<"A", "A">>}, w \in {1, 2}}

InitBuild ==
    /\ graph_data = EmptyGraph
    /\ validation = NotValidated
    /\ adj = NotBuilt
    /\ adjacency_matrix = <<>>
    /\ start_idx = NoIdx
    /\ end_idx = NoIdx
    /\ dj = IdleDijkstra
    /\ aco = NoColony
    /\ run = IdleRun
    /\ validations = 0
    /\ all_results = NoAllResults
    /\ db = EmptyDb
    /\ api = IdleApi

\* graph.add_node(Node(id, ...))
AddNode(id) ==
    /\ graph_data' = add_node(graph_data, id)
    /\ UNCHANGED <<validation, adj, adjacency_matrix, start_idx, end_idx, dj, aco, run,
                 validations, all_results, db, api>>

\* graph.add_edge(Edge(from, to, weight))
AddEdge(edge) ==
    /\ Len(graph_data.edges) < MaxBuildEdges
    /\ graph_data' = add_edge(graph_data, edge)
    /\ UNCHANGED <<validation, adj, adjacency_matrix, start_idx, end_idx, dj, aco, run,
                 validations, all_results, db, api>>

NextBuild ==
    \/ \E id \in BuildIds : AddNode(id)
    \/ \E edge \in BuildEdges : AddEdge(edge)
    \/ BuildMatrix

SpecBuild == InitBuild /\ [][NextBuild]_vars

(***************************************************************************)
(* Specification of Dijkstra: a solver constructed with any symmetric      *)
(* matrix over four vertices with at most MaxEdges edges, one call of      *)
(* find_shortest_path with any start and end, one step per iteration of    *)
(* its while loop.                                                         *)
(***************************************************************************)

\* The largest number of edges of a solver's graph.
MaxEdges == 4

\* Weights of the edges of a solver's graph.
Weights == {1, 2, 3}

SolverVertices == 0..3

VertexPairs == {p \in SolverVertices \X SolverVertices : p[1] < p[2]}

\* Symmetric, zero diagonal, positive finite weights or Inf.
SymmetricMatrices ==
    {[i \in SolverVertices |-> [j \in SolverVertices |->
            IF i = j THEN 0 ELSE IF i < j THEN w[<<i, j>>] ELSE w[<<j, i>>]]] :
        w \in {x \in [VertexPairs -> Weights \cup {Inf}] :
                  Cardinality({p \in VertexPairs : x[p] # Inf}) <= MaxEdges}}

InitDijkstra ==
    /\ graph_data = NoGraph
    /\ validation = NotValidated
    /\ adj = NotBuilt
    /\ adjacency_matrix \in SymmetricMatrices
    /\ start_idx = NoIdx
    /\ end_idx = NoIdx
    /\ dj = IdleDijkstra
    /\ aco = NoColony
    /\ run = IdleRun
    /\ validations = 0
    /\ all_results = NoAllResults
    /\ db = EmptyDb
    /\ api = IdleApi

\* find_shortest_path(start, end) up to the while loop.
DijkstraCall(s, e) ==
    /\ dj.pc = "idle"
    /\ start_idx' = s
    /\ end_idx' = e
    /\ dj' = DijkstraLocals(adjacency_matrix, s)
    /\ UNCHANGED <<graph_data, validation, adj, adjacency_matrix, aco, run,
                 validations, all_results, db, api>>

\* An iteration that pops an already visited vertex: continue.
DijkstraSkip ==
    /\ dj.pc = "loop" /\ dj.pq # {}
    /\ HeapMin(dj.pq)[2] \in dj.visited
    /\ dj' = DijkstraIteration(adjacency_matrix, end_idx, dj)
    /\ UNCHANGED <<graph_data, validation, adj, adjacency_matrix, start_idx, end_idx, aco, run,
                 validations, all_results, db, api>>

\* An iteration that pops the end vertex: visit it and break.
DijkstraBreak ==
    /\ dj.pc = "loop" /\ dj.pq # {}
    /\ HeapMin(dj.pq)[2] \notin dj.visited
    /\ HeapMin(dj.pq)[2] = end_idx
    /\ dj' = DijkstraIteration(adjacency_matrix, end_idx, dj)
    /\ UNCHANGED <<graph_data, validation, adj, adjacency_matrix, start_idx, end_idx, aco, run,
                 validations, all_results, db, api>>

\* An iteration that pops another unvisited vertex: visit it, relax its edges.
DijkstraRelax ==
    /\ dj.pc = "loop" /\ dj.pq # {}
    /\ HeapMin(dj.pq)[2] \notin dj.visited
    /\ HeapMin(dj.pq)[2] # end_idx
    /\ dj' = DijkstraIteration(adjacency_matrix, end_idx, dj)
    /\ UNCHANGED <<graph_data, validation, adj, adjacency_matrix, start_idx, end_idx, aco, run,
                 validations, all_results, db, api>>

\* The loop is over (break, or the queue is empty): reconstruct and return.
DijkstraReturn ==
    /\ dj.pc = "exit" \/ (dj.pc = "loop" /\ dj.pq = {})
    /\ dj' = DijkstraResult(dj, start_idx, end_idx)
    /\ UNCHANGED <<graph_data, validation, adj, adjacency_matrix, start_idx, end_idx, aco, run,
                 validations, all_results, db, api>>

\* find_all_shortest_paths(start) on the instance, once find_shortest_path
\* has returned.
DijkstraAll(s) ==
    /\ dj.pc = "done"
    /\ ~all_results.called
    /\ all_results' = [called |-> TRUE, start |-> s,
                       results |-> find_all_shortest_paths(adjacency_matrix, s)]
    /\ UNCHANGED <<graph_data, validation, adj, adjacency_matrix, start_idx, end_idx, dj,
                   aco, run, validations, db, api>>

NextDijkstra ==
    \/ \E s \in DOMAIN adjacency_matrix, e \in DOMAIN adjacency_matrix : DijkstraCall(s, e)
    \/ \E s \in DOMAIN adjacency_matrix : DijkstraAll(s)
    \/ DijkstraSkip
    \/ DijkstraBreak
    \/ DijkstraRelax
    \/ DijkstraReturn

SpecDijkstra == InitDijkstra /\ [][NextDijkstra]_vars

(***************************************************************************)
(* Claims about Dijkstra                                                   *)
(***************************************************************************)

\* The least total weight of a simple path from `current` to e that avoids
\* `seen`, by enumeration of all of them; Inf when there is none.
RECURSIVE MinSimplePath(_, _, _, _)
MinSimplePath(matrix, current, e, seen) ==
    IF current = e THEN 0
    ELSE LET nexts == {n \in DOMAIN matrix :
                          n \notin seen /\ n # current /\ matrix[current][n] # Inf}
             totals == {matrix[current][n] + MinSimplePath(matrix, n, e, seen \cup {current}) :
                          n \in nexts}
             finite == {t \in totals : t < Inf}
         IN  IF finite = {} THEN Inf ELSE Min(finite)

\* The vertices joined to a vertex of S by a chain of finite-weight edges.
RECURSIVE ReachableFrom(_, _)
ReachableFrom(matrix, S) ==
    LET T == S \cup {j \in DOMAIN matrix : \E i \in S : i # j /\ matrix[i][j] # Inf}
    IN  IF T = S THEN S ELSE ReachableFrom(matrix, T)

\* C1: the distance find_shortest_path returns is the least total weight
\* over all simple paths from start to end (Inf when there is none).
C1_DijkstraOptimal ==
    dj.pc = "done" =>
        dj.distance = MinSimplePath(adjacency_matrix, start_idx, end_idx, {})

\* A call has returned a distance that beats the direct edge from start to end.
C1_Witness ==
    /\ dj.pc = "done"
    /\ start_idx # end_idx
    /\ adjacency_matrix[start_idx][end_idx] # Inf
    /\ dj.distance < adjacency_matrix[start_idx][end_idx]

\* C2: for start # end, find_shortest_path returns the empty path with the
\* infinite distance exactly when end is not reachable from start, never an
\* empty path with a finite distance nor a non-empty path with an infinite
\* one; and a call that has not returned can always take its next step.
C2_NoPathIffUnreachable ==
    /\ (dj.pc = "done" /\ start_idx # end_idx) =>
          /\ (dj.path = <<>> /\ dj.distance = Inf)
                <=> (end_idx \notin ReachableFrom(adjacency_matrix, {start_idx}))
          /\ (dj.path = <<>>) <=> (dj.distance = Inf)
    /\ (dj.pc \in {"loop", "exit"}) => ENABLED NextDijkstra

\* A call with an unreachable end has returned, after skipping nothing or
\* something, with no path.
C2_Witness ==
    /\ dj.pc = "done"
    /\ start_idx # end_idx
    /\ end_idx \notin ReachableFrom(adjacency_matrix, {start_idx})
    /\ Cardinality(dj.visited) >= 3
    /\ dj.path = <<>>

\* C12: when end is reachable from start, find_shortest_path returns a path
\* from start to end whose consecutive nodes are joined by finite-weight
\* edges, that visits no node twice and whose calculate_path_distance is the
\* returned distance; for start = end it returns [start] with distance 0.
C12_PathWellFormed ==
    (/\ dj.pc = "done"
     /\ end_idx \in ReachableFrom(adjacency_matrix, {start_idx})) =>
        /\ dj.path # <<>>
        /\ dj.path[1] = idx_to_node(start_idx)
        /\ dj.path[Len(dj.path)] = idx_to_node(end_idx)
        /\ \A i \in 1..(Len(dj.path) - 1) :
              /\ dj.path[i] # dj.path[i + 1]
              /\ adjacency_matrix[node_to_idx(dj.path[i])][node_to_idx(dj.path[i + 1])] # Inf
        /\ Cardinality(Range(dj.path)) = Len(dj.path)
        /\ calculate_path_distance(dj.path, adjacency_matrix) = dj.distance
        /\ start_idx = end_idx => dj.path = <<idx_to_node(start_idx)>> /\ dj.distance = 0

\* A call has returned a path over two intermediate nodes.
C12_Witness ==
    /\ dj.pc = "done"
    /\ Len(dj.path) = 4
    /\ dj.distance < Inf

\* C13: find_all_shortest_paths(source) has exactly one entry for every node
\* other than source and none for source, and the (path, distance) of the
\* entry of t is what find_shortest_path(source, t) returns on the same
\* matrix, ([], inf) for an unreachable t included; the call of
\* find_shortest_path that has returned agrees with its entry.
C13_AllPathsAgree ==
    all_results.called =>
        /\ DOMAIN all_results.results =
              {idx_to_node(t) : t \in DOMAIN adjacency_matrix \ {all_results.start}}
        /\ \A t \in DOMAIN adjacency_matrix \ {all_results.start} :
              LET single == dijkstra_find_shortest_path(adjacency_matrix, all_results.start, t)
                  entry == all_results.results[idx_to_node(t)]
              IN  entry.path = single.path /\ entry.distance = single.distance
        /\ (dj.pc = "done" /\ start_idx = all_results.start /\ end_idx # start_idx) =>
              /\ all_results.results[idx_to_node(end_idx)].path = dj.path
              /\ all_results.results[idx_to_node(end_idx)].distance = dj.distance

\* find_all_shortest_paths has returned, for a source with an unreachable node
\* and a node two edges away, after a find_shortest_path from that source
\* that broke out of its loop before it had visited every reachable vertex.
C13_Witness ==
    /\ all_results.called
    /\ dj.pc = "done"
    /\ start_idx = all_results.start
    /\ end_idx # start_idx
    /\ \E t \in DOMAIN all_results.results : all_results.results[t].path = <<>>
    /\ \E t \in DOMAIN all_results.results : Len(all_results.results[t].path) = 3
    /\ dj.path # <<>>
    /\ dj.visited # ReachableFrom(adjacency_matrix, {start_idx})

\* One iteration of a Dijkstra loop from the locals st to the locals nx: a
\* popped entry of a visited vertex changes nothing but the queue; a newly
\* visited vertex is the only one added, is popped with its tentative
\* distance, which is its least distance from the source s and is not below
\* the distance of any vertex visited before it.
VisitStep(matrix, s, st, nx) ==
    LET top == HeapMin(st.pq)
        current == top[2]
    IN  IF current \in st.visited
        THEN /\ nx.visited = st.visited
             /\ nx.distances = st.distances
             /\ nx.previous = st.previous
        ELSE /\ nx.visited = st.visited \cup {current}
             /\ top[1] = st.distances[current]
             /\ st.distances[current] = MinSimplePath(matrix, s, current, {})
             /\ nx.distances[current] = st.distances[current]
             /\ \A u \in st.visited : st.distances[u] <= st.distances[current]

\* An iteration of the while loop of find_shortest_path satisfies VisitStep.
ShortestPathVisitStep ==
    (dj.pc = "loop" /\ dj.pq # {} /\ dj'.pc \in {"loop", "exit"})
        => VisitStep(adjacency_matrix, start_idx, dj, dj')

\* Every iteration of the while loop of find_all_shortest_paths, from the
\* locals st to the end of the loop, satisfies VisitStep.
RECURSIVE AllPathsVisitSteps(_, _, _)
AllPathsVisitSteps(matrix, s, st) ==
    IF st.pq = {} THEN TRUE
    ELSE LET nx == AllPathsIteration(matrix, st)
         IN  VisitStep(matrix, s, st, nx) /\ AllPathsVisitSteps(matrix, s, nx)

AllPathsVisitsInOrder ==
    all_results.called =>
        AllPathsVisitSteps(adjacency_matrix, all_results.start,
                           DijkstraLocals(adjacency_matrix, all_results.start))

\* The number of iterations of the loop of find_all_shortest_paths, from the
\* locals st on, that pop an entry of an already visited vertex.
RECURSIVE AllPathsSkips(_, _)
AllPathsSkips(matrix, st) ==
    IF st.pq = {} THEN 0
    ELSE (IF HeapMin(st.pq)[2] \in st.visited THEN 1 ELSE 0)
         + AllPathsSkips(matrix, AllPathsIteration(matrix, st))

\* C21: in both Dijkstra loops a vertex is added to visited at most once and
\* a popped entry of a visited vertex is skipped without relaxing anything,
\* the vertices are visited in non-decreasing order of distance, and a
\* vertex is visited with its true shortest distance from the source.
C21_VisitedOnceInOrder == []AllPathsVisitsInOrder /\ [][ShortestPathVisitStep]_vars

\* Both loops have run on a graph where every vertex is reachable at a
\* positive distance; find_all_shortest_paths has skipped a stale entry, and
\* find_shortest_path has visited every vertex and left a stale entry of a
\* visited vertex behind when it broke out.
C21_Witness ==
    /\ all_results.called
    /\ dj.pc = "done"
    /\ dj.visited = DOMAIN adjacency_matrix
    /\ \E e \in dj.pq : e[2] \in dj.visited
    /\ AllPathsSkips(adjacency_matrix,
                     DijkstraLocals(adjacency_matrix, all_results.start)) > 0

(***************************************************************************)
(* Claims about the graph operations                                       *)
(***************************************************************************)

\* C7: the matrix get_adjacency_matrix returns is symmetric, also when the
\* edge list holds a pair twice or in both orientations with different
\* weights.
C7_MatrixSymmetric ==
    (adj.called /\ ~adj.raised) =>
        \A i \in DOMAIN adj.matrix : \A j \in DOMAIN adj.matrix :
            adj.matrix[i][j] = adj.matrix[j][i]

\* A matrix was built from an edge list that gives A-B and B-A different
\* weights.
C7_Witness ==
    /\ adj.called /\ ~adj.raised
    /\ \E k \in DOMAIN graph_data.edges : \E l \in DOMAIN graph_data.edges :
          /\ graph_data.edges[k].from = "A" /\ graph_data.edges[k].to = "B"
          /\ graph_data.edges[l].from = "B" /\ graph_data.edges[l].to = "A"
          /\ graph_data.edges[k].weight # graph_data.edges[l].weight
    /\ \E i \in DOMAIN adj.matrix : \E j \in DOMAIN adj.matrix :
          i # j /\ adj.matrix[i][j] # Inf

\* C8: for a graph validate_graph accepts, the matrix built from it has a
\* zero diagonal.
C8_ZeroDiagonal ==
    (validation.called /\ validation.ok /\ adj.called /\ ~adj.raised) =>
        \A i \in DOMAIN adj.matrix : adj.matrix[i][i] = 0

\* The ids joined to an id of S by a chain of edges, taken in either direction.
RECURSIVE IdsJoinedTo(_, _)
IdsJoinedTo(edges, S) ==
    LET T == S \cup {edges[k].to : k \in {l \in DOMAIN edges : edges[l].from \in S}}
                \cup {edges[k].from : k \in {l \in DOMAIN edges : edges[l].to \in S}}
    IN  IF T = S THEN S ELSE IdsJoinedTo(edges, T)

\* What a valid graph is, stated without the order of the checks.
WellFormed(g) ==
    /\ g.has_nodes /\ g.has_edges
    /\ Len(g.nodes) >= 2
    /\ \A i \in DOMAIN g.nodes : \A j \in DOMAIN g.nodes : g.nodes[i] = g.nodes[j] => i = j
    /\ \A k \in DOMAIN g.edges :
          /\ g.edges[k].from \in Range(g.nodes)
          /\ g.edges[k].to \in Range(g.nodes)
          /\ g.edges[k].weight > 0
    /\ Range(g.nodes) \subseteq IdsJoinedTo(g.edges, {g.nodes[1]})

\* C9: validate_graph returns ok = true exactly for the well-formed graphs,
\* and ok = false with a message for the others.
C9_ValidIffWellFormed ==
    validation.called =>
        /\ validation.ok <=> WellFormed(graph_data)
        /\ validation.ok => validation.message.kind = "valid"
        /\ ~validation.ok =>
              validation.message.kind \in
                  {"missing", "few_nodes", "duplicate", "no_node", "weight", "disconnected"}

\* A graph of three distinct nodes joined by two edges was accepted.
C9_Witness ==
    /\ validation.called /\ validation.ok
    /\ Len(graph_data.nodes) = 3
    /\ Len(graph_data.edges) = 2

EdgeDangling(g, k) ==
    g.edges[k].from \notin Range(g.nodes) \/ g.edges[k].to \notin Range(g.nodes)

EdgeNonPositive(g, k) == g.edges[k].weight <= 0

\* The kind of violation that comes first in the order (a) .. (f).
FirstKindByCategory(g) ==
    IF ~g.has_nodes \/ ~g.has_edges THEN "missing"
    ELSE IF Len(g.nodes) < 2 THEN "few_nodes"
    ELSE IF Cardinality(Range(g.nodes)) # Len(g.nodes) THEN "duplicate"
    ELSE IF \E k \in DOMAIN g.edges : EdgeDangling(g, k) THEN "no_node"
    ELSE IF \E k \in DOMAIN g.edges : EdgeNonPositive(g, k) THEN "weight"
    ELSE IF ~(Range(g.nodes) \subseteq IdsJoinedTo(g.edges, {g.nodes[1]})) THEN "disconnected"
    ELSE "valid"

\* C10 as stated: the violation reported is the first one in the order
\* (a) .. (f), whatever the order of the edges.
C10_FirstByCategory ==
    validation.called => validation.message.kind = FirstKindByCategory(graph_data)

\* The kind of violation validate_graph meets first: (a), (b), (c), then the
\* first edge of the list that has a violation (a dangling endpoint before a
\* non-positive weight within that edge), then (f).
FirstKindByEdge(g) ==
    IF ~g.has_nodes \/ ~g.has_edges THEN "missing"
    ELSE IF Len(g.nodes) < 2 THEN "few_nodes"
    ELSE IF Cardinality(Range(g.nodes)) # Len(g.nodes) THEN "duplicate"
    ELSE LET bad == {k \in DOMAIN g.edges : EdgeDangling(g, k) \/ EdgeNonPositive(g, k)}
         IN  IF bad # {}
             THEN IF EdgeDangling(g, Min(bad)) THEN "no_node" ELSE "weight"
             ELSE IF ~(Range(g.nodes) \subseteq IdsJoinedTo(g.edges, {g.nodes[1]}))
             THEN "disconnected"
             ELSE "valid"

\* C10 as amended: (a), (b), (c) are reported in that order; among the edges
\* the first offending edge of the list decides, so a graph with a dangling
\* edge and a non-positive weight is reported as dangling exactly when the
\* first offending edge is dangling.
C10_FirstByEdgeOrder ==
    validation.called =>
        /\ validation.message.kind = FirstKindByEdge(graph_data)
        /\ validation.message.kind = "no_node" =>
              LET g == graph_data
                  first == Min({k \in DOMAIN g.edges : EdgeDangling(g, k) \/ EdgeNonPositive(g, k)})
              IN  validation.message.node =
                      IF g.edges[first].from \notin Range(g.nodes)
                      THEN g.edges[first].from ELSE g.edges[first].to

\* A graph whose first edge has a non-positive weight and whose second edge
\* dangles was validated.
C10_Witness ==
    /\ validation.called
    /\ Len(graph_data.nodes) >= 2
    /\ Cardinality(Range(graph_data.nodes)) = Len(graph_data.nodes)
    /\ Len(graph_data.edges) = 2
    /\ ~EdgeDangling(graph_data, 1) /\ EdgeNonPositive(graph_data, 1)
    /\ EdgeDangling(graph_data, 2)
    /\ validation.message.kind = "weight"

NumAnts == 2

\* The number of iterations of an instance.
Iterations == 2

\* The largest number of calls of find_shortest_path on one instance.
MaxCalls == 1

MatrixOf(rows) ==
    [i \in 0..(Len(rows) - 1) |-> [j \in 0..(Len(rows) - 1) |-> rows[i + 1][j + 1]]]

\* A-B 10, A-C 5, B-D 15, C-D 20.
TestMatrix ==
    MatrixOf(<< <<0, 10, 5, Inf>>,
                <<10, 0, Inf, 15>>,
                <<5, Inf, 0, 20>>,
                <<Inf, 15, 20, 0>> >>)

\* A-B 10 and C-D 20: D is not reachable from A.
DisconnectedMatrix ==
    MatrixOf(<< <<0, 10, Inf, Inf>>,
                <<10, 0, Inf, Inf>>,
                <<Inf, Inf, 0, 20>>,
                <<Inf, Inf, 20, 0>> >>)

\* A-B 2, A-C 4, B-C 1, B-D 7, C-D 3, C-E 5, D-E 2.
ComparisonMatrix ==
    MatrixOf(<< <<0, 2, 4, Inf, Inf>>,
                <<2, 0, 1, 7, Inf>>,
                <<4, 1, 0, 3, 5>>,
                <<Inf, 7, 3, 0, 2>>,
                <<Inf, Inf, 5, 2, 0>> >>)

ColonyMatrices == {TestMatrix, DisconnectedMatrix}

\* The defaults of __init__ (alpha 1.0, beta 5.0, evaporation 0.5, q 100.0),
\* and a setting with the highest evaporation rate of the documented range
\* 0..1 and a small deposit constant.
ColonyParams ==
    {[num_ants |-> NumAnts, alpha |-> 1, beta |-> 5, evaporation |-> <<1, 2>>,
      iterations |-> Iterations, q |-> <<100, 1>>],
     [num_ants |-> NumAnts, alpha |-> 1, beta |-> 5, evaporation |-> <<1, 1>>,
      iterations |-> Iterations, q |-> <<1, 1>>]}

InitColony ==
    /\ graph_data = NoGraph
    /\ validation = NotValidated
    /\ adj = NotBuilt
    /\ adjacency_matrix \in ColonyMatrices
    /\ start_idx = NoIdx
    /\ end_idx = NoIdx
    /\ dj = IdleDijkstra
    /\ \E params \in ColonyParams : aco = NewColony(adjacency_matrix, params)
    /\ run = IdleRun
    /\ validations = 0
    /\ all_results = NoAllResults
    /\ db = EmptyDb
    /\ api = IdleApi

\* find_shortest_path(start, end) up to the first ant: best_path, best_distance
\* and self.history are reset, self.pheromone is not.
ColonyCall(s, e) ==
    /\ run.pc \in {"idle", "done", "raised"}
    /\ run.calls < MaxCalls
    /\ start_idx' = s
    /\ end_idx' = e
    /\ aco' = [aco EXCEPT !.history = <<>>]
    /\ run' = StartAnt([IdleRun EXCEPT !.calls = run.calls + 1], s)
    /\ UNCHANGED <<graph_data, validation, adj, adjacency_matrix, dj,
                 validations, all_results, db, api>>

\* A pass of the construction loop that finds a next vertex and moves to it.
AntMove(next_node) ==
    /\ run.pc = "ant"
    /\ run.current # end_idx /\ Cardinality(run.visited) < NumNodes(adjacency_matrix)
    /\ next_node # NoIdx
    /\ next_node \in select_next_node(adjacency_matrix, aco, run.current, run.visited)
    /\ run' = AntStep(adjacency_matrix, run, next_node)
    /\ UNCHANGED <<graph_data, validation, adj, adjacency_matrix, start_idx, end_idx, dj, aco,
                 validations, all_results, db, api>>

\* A pass of the construction loop that finds no next vertex: the ant fails.
AntDeadEnd ==
    /\ run.pc = "ant"
    /\ run.current # end_idx /\ Cardinality(run.visited) < NumNodes(adjacency_matrix)
    /\ NoIdx \in select_next_node(adjacency_matrix, aco, run.current, run.visited)
    /\ run' = RecordAnt(run, start_idx, aco.num_ants, DeadEndResult(run))
    /\ UNCHANGED <<graph_data, validation, adj, adjacency_matrix, start_idx, end_idx, dj, aco,
                 validations, all_results, db, api>>

\* The construction loop is over: the ant returns.
AntReturn ==
    /\ run.pc = "ant"
    /\ ~(run.current # end_idx /\ Cardinality(run.visited) < NumNodes(adjacency_matrix))
    /\ run' = RecordAnt(run, start_idx, aco.num_ants, LoopEndResult(run, end_idx))
    /\ UNCHANGED <<graph_data, validation, adj, adjacency_matrix, start_idx, end_idx, dj, aco,
                 validations, all_results, db, api>>

\* _update_pheromones returns; the history sample; the next iteration or the
\* return of find_shortest_path.
UpdatePheromones ==
    /\ run.pc = "update"
    /\ LET updated == update_pheromones(aco, run.all_paths, run.all_distances)
       IN  /\ ~updated.raised
           /\ aco' = [aco EXCEPT !.pheromone = updated.pheromone,
                                 !.history = IF Sampled(run.iteration, aco.iterations)
                                             THEN Append(@, HistoryEntry(run)) ELSE @]
           /\ run' = AfterUpdate(run, start_idx, aco.iterations)
    /\ UNCHANGED <<graph_data, validation, adj, adjacency_matrix, start_idx, end_idx, dj,
                 validations, all_results, db, api>>

\* _update_pheromones raises ZeroDivisionError, and so does find_shortest_path.
UpdateRaises ==
    /\ run.pc = "update"
    /\ LET updated == update_pheromones(aco, run.all_paths, run.all_distances)
       IN  /\ updated.raised
           /\ aco' = [aco EXCEPT !.pheromone = updated.pheromone]
           /\ run' = [run EXCEPT !.pc = "raised", !.all_paths = <<>>, !.all_distances = <<>>]
    /\ UNCHANGED <<graph_data, validation, adj, adjacency_matrix, start_idx, end_idx, dj,
                 validations, all_results, db, api>>

NextColony ==
    \/ \E s \in DOMAIN adjacency_matrix, e \in DOMAIN adjacency_matrix : ColonyCall(s, e)
    \/ \E next_node \in DOMAIN adjacency_matrix : AntMove(next_node)
    \/ AntDeadEnd
    \/ AntReturn
    \/ UpdatePheromones
    \/ UpdateRaises

SpecColony == InitColony /\ [][NextColony]_vars

(***************************************************************************)
(* Specification of the comparison test: an instance with the defaults on  *)
(* the five-vertex comparison graph, one call of find_shortest_path from A *)
(* to E.                                                                   *)
(***************************************************************************)

\* Bounds of the comparison run: ants per iteration, iterations.
CompareAnts == 1
CompareIterations == 2

DefaultParams ==
    [num_ants |-> CompareAnts, alpha |-> 1, beta |-> 5,
     evaporation |-> <<1, 2>>, iterations |-> CompareIterations,
     q |-> <<100, 1>>]

InitCompare ==
    /\ graph_data = NoGraph
    /\ validation = NotValidated
    /\ adj = NotBuilt
    /\ adjacency_matrix = ComparisonMatrix
    /\ start_idx = NoIdx
    /\ end_idx = NoIdx
    /\ dj = IdleDijkstra
    /\ aco = NewColony(adjacency_matrix, DefaultParams)
    /\ run = IdleRun
    /\ validations = 0
    /\ all_results = NoAllResults
    /\ db = EmptyDb
    /\ api = IdleApi

\* aco.find_shortest_path('A', 'E'), once.
CompareCall ==
    /\ run.calls = 0
    /\ ColonyCall(0, 4)

NextCompare ==
    \/ CompareCall
    \/ \E next_node \in DOMAIN adjacency_matrix : AntMove(next_node)
    \/ AntDeadEnd
    \/ AntReturn
    \/ UpdatePheromones

SpecCompare == InitCompare /\ [][NextCompare]_vars

(***************************************************************************)
(* Specification of the history: an instance with one ant and any number   *)
(* of iterations from 1 to MaxSampleIterations on the disconnected graph   *)
(* of the tests, one call of find_shortest_path from A to its only         *)
(* neighbour B.                                                            *)
(***************************************************************************)

\* The largest number of iterations of the instance.
MaxSampleIterations == 12

SampleParams ==
    {[num_ants |-> 1, alpha |-> 1, beta |-> 5, evaporation |-> <<1, 2>>,
      iterations |-> n, q |-> <<100, 1>>] : n \in 1..MaxSampleIterations}

InitSample ==
    /\ graph_data = NoGraph
    /\ validation = NotValidated
    /\ adj = NotBuilt
    /\ adjacency_matrix = DisconnectedMatrix
    /\ start_idx = NoIdx
    /\ end_idx = NoIdx
    /\ dj = IdleDijkstra
    /\ \E params \in SampleParams : aco = NewColony(adjacency_matrix, params)
    /\ run = IdleRun
    /\ validations = 0
    /\ all_results = NoAllResults
    /\ db = EmptyDb
    /\ api = IdleApi

\* aco.find_shortest_path('A', 'B'), once.
SampleCall ==
    /\ run.calls = 0
    /\ ColonyCall(0, 1)

NextSample ==
    \/ SampleCall
    \/ \E next_node \in DOMAIN adjacency_matrix : AntMove(next_node)
    \/ AntReturn
    \/ UpdatePheromones

SpecSample == InitSample /\ [][NextSample]_vars

(***************************************************************************)
(* Specification of the reuse of an instance: one instance with the        *)
(* defaults, one ant and one iteration on the graph of the tests, and      *)
(* find_shortest_path called on it up to RepeatCalls times from A to any   *)
(* other node.  No walk from A ends in a dead end on this graph, and no    *)
(* call raises.                                                            *)
(***************************************************************************)

\* The largest number of calls on the instance.
RepeatCalls == 2

RepeatParams ==
    [num_ants |-> 1, alpha |-> 1, beta |-> 5, evaporation |-> <<1, 2>>,
     iterations |-> 1, q |-> <<100, 1>>]

InitRepeat ==
    /\ graph_data = NoGraph
    /\ validation = NotValidated
    /\ adj = NotBuilt
    /\ adjacency_matrix = TestMatrix
    /\ start_idx = NoIdx
    /\ end_idx = NoIdx
    /\ dj = IdleDijkstra
    /\ aco = NewColony(adjacency_matrix, RepeatParams)
    /\ run = IdleRun
    /\ validations = 0
    /\ all_results = NoAllResults
    /\ db = EmptyDb
    /\ api = IdleApi

\* aco.find_shortest_path('A', e) on the instance as the calls before it
\* left it: the statements of ColonyCall.
RepeatCall(e) ==
    /\ run.pc \in {"idle", "done", "raised"}
    /\ run.calls < RepeatCalls
    /\ start_idx' = 0
    /\ end_idx' = e
    /\ aco' = [aco EXCEPT !.history = <<>>]
    /\ run' = StartAnt([IdleRun EXCEPT !.calls = run.calls + 1], 0)
    /\ UNCHANGED <<graph_data, validation, adj, adjacency_matrix, dj,
                 validations, all_results, db, api>>

NextRepeat ==
    \/ \E e \in DOMAIN adjacency_matrix \ {0} : RepeatCall(e)
    \/ \E next_node \in DOMAIN adjacency_matrix : AntMove(next_node)
    \/ AntReturn
    \/ UpdatePheromones

SpecRepeat == InitRepeat /\ [][NextRepeat]_vars

(***************************************************************************)
(* Claims about the ant colony                                             *)
(***************************************************************************)

\* The call in progress, or the last one, has an end that no chain of edges
\* joins to its start.
EndUnreachable ==
    /\ run.pc # "idle"
    /\ start_idx # end_idx
    /\ end_idx \notin ReachableFrom(adjacency_matrix, {start_idx})

\* C3: when end is not reachable from start (start # end), whatever the ants
\* choose, find_shortest_path never raises (an ant can always take its next
\* step, no pheromone update raises), returns after all its iterations, and
\* returns the empty path with the infinite distance.
C3_UnreachableEmptyInf ==
    EndUnreachable =>
        /\ run.pc # "raised"
        /\ run.pc = "ant" =>
              ENABLED (AntReturn \/ AntDeadEnd
                         \/ \E next_node \in DOMAIN adjacency_matrix : AntMove(next_node))
        /\ run.pc = "update" =>
              ~update_pheromones(aco, run.all_paths, run.all_distances).raised
        /\ run.pc = "done" =>
              /\ run.iteration = aco.iterations
              /\ run.ret_path = <<>>
              /\ run.ret_distance = Inf

\* A call with an unreachable end has returned; its ants could leave the
\* start before they met the dead end.
C3_Witness ==
    /\ EndUnreachable
    /\ run.pc = "done"
    /\ \E n \in DOMAIN adjacency_matrix :
          n # start_idx /\ adjacency_matrix[start_idx][n] # Inf
    /\ run.ret_path = <<>>
    /\ run.ret_distance = Inf

\* C4: the distance find_shortest_path of the colony returns is never
\* smaller than the distance Dijkstra returns on the same matrix, start and
\* end, whatever the ants choose.
C4_NeverBelowDijkstra ==
    run.pc = "done" =>
        run.ret_distance >=
            dijkstra_find_shortest_path(adjacency_matrix, start_idx, end_idx).distance

\* A call has returned a path that is longer than the one Dijkstra returns.
C4_Witness ==
    /\ run.pc = "done"
    /\ run.ret_path # <<>>
    /\ run.ret_distance < Inf
    /\ run.ret_distance >
          dijkstra_find_shortest_path(adjacency_matrix, start_idx, end_idx).distance

\* The total weights of the simple paths from `current` to e that avoid
\* `seen`, `total` being the weight walked so far.
RECURSIVE SimplePathLengths(_, _, _, _, _)
SimplePathLengths(matrix, current, e, seen, total) ==
    IF current = e THEN {total}
    ELSE UNION {SimplePathLengths(matrix, n, e, seen \cup {current},
                                  total + matrix[current][n]) :
                   n \in {m \in DOMAIN matrix :
                            m \notin seen /\ m # current /\ matrix[current][m] # Inf}}

AntRecorded ==
    /\ run.pc = "ant"
    /\ run'.calls = run.calls
    /\ Len(run'.all_distances) = Len(run.all_distances) + 1

\* The best path is walked at the best distance; the best_distance of the
\* history samples never increases; a call returns the running best with
\* its path, which is the best_distance of the last sample.
RunningBestKept ==
    /\ run.best_path # <<>> =>
          calculate_path_distance(PathIds(run.best_path), adjacency_matrix)
              = run.best_distance
    /\ run.best_path = <<>> <=> run.best_distance = Inf
    /\ \A i \in 1..(Len(aco.history) - 1) :
          aco.history[i + 1].best_distance <= aco.history[i].best_distance
    /\ run.pc = "done" =>
          /\ run.ret_distance = run.best_distance
          /\ run.ret_path = PathIds(run.best_path)
          /\ aco.history # <<>> =>
                aco.history[Len(aco.history)].best_distance = run.ret_distance

\* Within a call the running best never increases, changes only when an ant
\* returns, then to what that ant returned, and is never above what an ant
\* returned with a path.
RunningBestStep ==
    run'.calls = run.calls =>
        /\ run'.best_distance <= run.best_distance
        /\ <<run'.best_path, run'.best_distance>> # <<run.best_path, run.best_distance>> =>
              /\ AntRecorded
              /\ run'.best_path = run'.all_paths[Len(run'.all_paths)]
              /\ run'.best_distance = run'.all_distances[Len(run'.all_distances)]
        /\ (AntRecorded /\ run'.all_paths[Len(run'.all_paths)] # <<>>) =>
              run'.best_distance <= run'.all_distances[Len(run'.all_distances)]

\* C14: the distance the colony returns is the least distance of the
\* successful ant paths of the call, infinite when there is none, and the
\* returned path is the path of an ant that walked it: the running best is
\* the least distance an ant has returned so far, the call returns it with
\* its path; the best_distance of the history samples never increases and
\* that of the last sample is the returned distance.
C14_ReturnsRunningBest == []RunningBestKept /\ [][RunningBestStep]_vars

\* A call has returned the distance 8 that an ant of a later iteration found,
\* after a first sample with a longer best path.
C14_Witness ==
    /\ run.pc = "done"
    /\ Len(aco.history) >= 2
    /\ aco.history[1].best_distance < Inf
    /\ aco.history[1].best_distance > aco.history[Len(aco.history)].best_distance
    /\ run.ret_distance = 8

\* The iteration indices of the history samples, in the order of the list.
SampledIterations == [k \in DOMAIN aco.history |-> aco.history[k].iteration]

\* C15: for a call with N >= 1 iterations, after the first run.iteration
\* iterations the history holds exactly one sample for each of their indices
\* i with i mod 10 = 0 or i = N - 1, in increasing order of i; the history a
\* call returns has them for all of 0..N-1 and is not empty.
C15_HistorySamples ==
    run.pc # "idle" =>
        /\ \A k \in 1..(Len(aco.history) - 1) :
              SampledIterations[k] < SampledIterations[k + 1]
        /\ Range(SampledIterations) =
              {i \in 0..(run.iteration - 1) : i % 10 = 0 \/ i = aco.iterations - 1}
        /\ run.pc = "done" =>
              /\ run.iteration = aco.iterations
              /\ aco.history # <<>>

\* A call with 11 iterations has returned: its last index 10 is a multiple of
\* 10 and is sampled once.
C15_Witness ==
    /\ run.pc = "done"
    /\ aco.iterations = 11
    /\ SampledIterations = <<0, 10>>

\* C6: every entry of the pheromone matrix of an instance lies in
\* [0.1, 10.0], in every state from its construction on.
C6_PheromoneInRange ==
    \A i \in DOMAIN aco.pheromone : \A j \in DOMAIN aco.pheromone :
        /\ ~RatLess(aco.pheromone[i][j], PheromoneMin)
        /\ ~RatLess(PheromoneMax, aco.pheromone[i][j])

\* The first ant of a call is about to start: the iteration loop of
\* find_shortest_path has not changed anything yet.
LoopStarts ==
    /\ run.pc = "ant"
    /\ run.iteration = 0
    /\ run.ant = 0
    /\ Len(run.path) = 1

\* C18: every call of find_shortest_path, the second and later ones on the
\* same instance too, starts its iteration loop with every pheromone entry
\* equal to 1.0.
C18_PheromoneFreshAtCall ==
    LoopStarts => aco.pheromone = InitialPheromone(adjacency_matrix)

\* C20: for num_nodes >= 2 and every outcome of the random draws the graph
\* returned by generate_random_graph is connected, and validate_graph
\* accepts it.
C20_GeneratedConnected ==
    graph_data # NoGraph =>
        /\ is_connected(graph_data.nodes, graph_data.edges)
        /\ validation.called => validation.ok

\* The number of times a path traverses the edge {i, j}, in either direction.
Traversals(path, i, j) ==
    Cardinality({t \in 1..(Len(path) - 1) :
                    \/ path[t] = i /\ path[t + 1] = j
                    \/ path[t] = j /\ path[t + 1] = i})

\* The sum of Q / d over every successful ant from ant k on and every time
\* its path traverses the edge {i, j}.
RECURSIVE DepositSum(_, _, _, _, _, _)
DepositSum(q, all_paths, all_distances, i, j, k) ==
    IF k > Len(all_paths) THEN <<0, 1>>
    ELSE LET rest == DepositSum(q, all_paths, all_distances, i, j, k + 1)
             times == Traversals(all_paths[k], i, j)
         IN  IF all_paths[k] = <<>> \/ all_distances[k] = Inf \/ times = 0 THEN rest
             ELSE RatAdd(RatMul(Rat(q[1], q[2] * all_distances[k]), <<times, 1>>), rest)

\* clamp(x, 0.1, 10.0)
Clamp(x) ==
    IF RatLess(x, PheromoneMin) THEN PheromoneMin
    ELSE IF RatLess(PheromoneMax, x) THEN PheromoneMax
    ELSE x

\* The matrix the claim asks of one call of _update_pheromones.
UpdatedPheromone(colony, all_paths, all_distances) ==
    [i \in DOMAIN colony.pheromone |-> [j \in DOMAIN colony.pheromone |->
        Clamp(RatAdd(RatMul(RatAdd(<<1, 1>>, <<-colony.evaporation[1],
                                               colony.evaporation[2]>>),
                            colony.pheromone[i][j]),
                     DepositSum(colony.q, all_paths, all_distances, i, j, 1)))]]

\* C22: one call of _update_pheromones sets every entry (i, j) to
\* clamp((1 - evaporation) * old(i, j) + the sum of Q / d over every
\* successful ant and every traversal of the edge {i, j} by its path, 0.1,
\* 10.0); an ant with an empty path or an infinite distance deposits nothing.
C22_UpdateFormula ==
    [][run.pc = "update" =>
          aco'.pheromone = UpdatedPheromone(aco, run.all_paths, run.all_distances)]_vars

\* The vertices the ant can move to: not visited, and joined to the vertex it
\* stands on by a finite-weight edge.
OpenNeighbours ==
    {n \in DOMAIN adjacency_matrix :
        n \notin run.visited /\ n # run.current /\ adjacency_matrix[run.current][n] # Inf}

\* A step of an ant under construction: either a move to an open neighbour,
\* which is appended to the path, or the return of the ant, with ([], inf)
\* exactly when it stands on a vertex other than the target that has no open
\* neighbour, and with its path, which ends at the target, otherwise.
ConstructionStep ==
    run.pc = "ant" =>
        \/ /\ run'.pc = "ant"
           /\ run'.ant = run.ant
           /\ run'.iteration = run.iteration
           /\ run'.current \in OpenNeighbours
           /\ run'.path = Append(run.path, run'.current)
           /\ run'.visited = run.visited \cup {run'.current}
        \/ /\ run'.ant = run.ant + 1
           /\ Len(run'.all_paths) = run'.ant
           /\ LET path == run'.all_paths[run'.ant]
                  distance == run'.all_distances[run'.ant]
                  stuck == run.current # end_idx /\ OpenNeighbours = {}
              IN  /\ (path = <<>> /\ distance = Inf) <=> stuck
                  /\ ~stuck => /\ path = run.path
                               /\ path[Len(path)] = end_idx

\* _select_next_node returns None only when there is no candidate.
SelectNoneOnlyWhenEmpty ==
    (run.pc = "ant" /\ run.current # end_idx
        /\ NoIdx \in select_next_node(adjacency_matrix, aco, run.current, run.visited))
    => OpenNeighbours = {}

\* C23: every step of _construct_solution moves the ant to a vertex it has
\* not visited over a finite-weight edge; the ant returns ([], infinity)
\* exactly when it stands on a vertex other than the target with no such
\* neighbour, and otherwise a path that ends at the target;
\* _select_next_node returns no vertex only when the candidate set is empty.
C23_ConstructionSteps == []SelectNoneOnlyWhenEmpty /\ [][ConstructionStep]_vars

\* An ant of the first iteration has reached the target over three edges or
\* more, and the ant of the second iteration has walked into a dead end.
C23_Witness ==
    /\ run.pc = "update"
    /\ run.iteration = 1
    /\ Len(run.best_path) >= 4
    /\ run.all_paths = << <<>> >>
    /\ run.all_distances = <<Inf>>

\* C24: find_shortest_path always terminates: when it is over it has run
\* exactly `iterations` iterations, each of exactly num_ants constructions
\* and then one pheromone update, and no construction makes more than
\* num_nodes - 1 moves.
C24_RunsAllIterations ==
    /\ run.pc \in {"done", "raised"} => run.iteration = aco.iterations
    /\ run.pc = "update" => run.ant = aco.num_ants /\ Len(run.all_paths) = aco.num_ants
    /\ run.pc = "ant" => /\ run.iteration < aco.iterations
                         /\ run.ant < aco.num_ants
                         /\ Len(run.all_paths) = run.ant
                         /\ Len(run.path) - 1 <= NumNodes(adjacency_matrix) - 1

\* The paths one construction can return from the position (path, visited,
\* current) on: <<>> for ([], inf).
RECURSIVE AntOutcomesFrom(_, _, _, _, _, _)
AntOutcomesFrom(matrix, colony, e, path, visited, current) ==
    IF ~(current # e /\ Cardinality(visited) < NumNodes(matrix))
    THEN {IF current # e THEN <<>> ELSE path}
    ELSE UNION {IF next_node = NoIdx THEN {<<>>}
                ELSE AntOutcomesFrom(matrix, colony, e, Append(path, next_node),
                                     visited \cup {next_node}, next_node) :
                next_node \in select_next_node(matrix, colony, current, visited)}

\* The paths a construction from start to end can return with the matrices
\* as they are.
AntOutcomes ==
    AntOutcomesFrom(adjacency_matrix, aco, end_idx, <<start_idx>>, {start_idx}, start_idx)

\* An ant under construction has visited its own path and nothing else; an
\* ant that starts, after any number of ants of its iteration, can return
\* the same paths as the first one; every path recorded in the iteration is
\* one of them.
AntsIndependent ==
    /\ run.pc = "ant" =>
          /\ run.path[1] = start_idx
          /\ run.visited = Range(run.path)
          /\ Len(run.path) = 1 =>
                AntOutcomesFrom(adjacency_matrix, aco, end_idx, run.path, run.visited,
                                run.current) = AntOutcomes
    /\ run.pc \in {"ant", "update"} =>
          \A k \in 1..Len(run.all_paths) : run.all_paths[k] \in AntOutcomes

\* The constructions of the ants leave the instance and the adjacency matrix
\* as they are, and a step that changes the pheromone is _update_pheromones.
OnlyUpdateWrites ==
    /\ run.pc = "ant" => aco' = aco /\ adjacency_matrix' = adjacency_matrix
    /\ aco'.pheromone # aco.pheromone => run.pc = "update"

C26_StartIsEnd ==
    (start_idx # NoIdx /\ start_idx = end_idx) =>
        /\ run.pc # "raised"
        /\ run.pc = "done" => /\ run.ret_path = <<idx_to_node(start_idx)>>
                              /\ run.ret_distance = 0

\* C27: a non-empty path returned by find_shortest_path starts at start, ends
\* at end, visits no node twice, joins consecutive nodes by finite-weight
\* edges only, and the returned distance is the sum of the weights of its
\* edges, as calculate_path_distance computes it.
C27_ColonyPathWellFormed ==
    (run.pc = "done" /\ run.ret_path # <<>>) =>
        /\ run.ret_path[1] = idx_to_node(start_idx)
        /\ run.ret_path[Len(run.ret_path)] = idx_to_node(end_idx)
        /\ Cardinality(Range(run.ret_path)) = Len(run.ret_path)
        /\ \A i \in 1..(Len(run.ret_path) - 1) :
              adjacency_matrix[node_to_idx(run.ret_path[i])]
                              [node_to_idx(run.ret_path[i + 1])] # Inf
        /\ run.ret_distance = calculate_path_distance(run.ret_path, adjacency_matrix)
        /\ run.ret_distance < Inf

\* A call has returned a path over three edges.
C27_Witness ==
    /\ run.pc = "done"
    /\ Len(run.ret_path) = 4
    /\ run.ret_distance = calculate_path_distance(run.ret_path, adjacency_matrix)

\* C28: after construction and after any number of iterations the pheromone
\* matrix is symmetric.
C28_PheromoneSymmetric ==
    aco # NoColony =>
        \A i \in DOMAIN aco.pheromone, j \in DOMAIN aco.pheromone :
            aco.pheromone[i][j] = aco.pheromone[j][i]

\* Every iteration of a call has updated the matrix, and it holds a deposit:
\* two entries differ.
C28_Witness ==
    /\ run.pc = "done"
    /\ run.iteration = aco.iterations
    /\ \E i \in DOMAIN aco.pheromone, j \in DOMAIN aco.pheromone :
          /\ i < j
          /\ aco.pheromone[i][j] # aco.pheromone[i][i]
          /\ aco.pheromone[i][j] = aco.pheromone[j][i]

\* C29: on the matrix built from a graph that validate_graph accepts,
\* Dijkstra.find_shortest_path returns a non-empty path and a finite
\* distance for every pair of node ids.
C29_ValidGraphHasPaths ==
    (validation.called /\ validation.ok /\ dj.pc = "done") =>
        /\ dj.path # <<>>
        /\ dj.distance < Inf

\* C30: in a Graph that starts empty and changes only through add_node and
\* add_edge, node ids stay pairwise distinct and every stored edge has both
\* endpoints among the stored nodes; add_node with an existing id and
\* add_edge with a missing endpoint leave the graph unchanged; and
\* get_adjacency_matrix never fails on an unknown node.
C30_BuiltGraphWellFormed ==
    /\ Cardinality(Range(graph_data.nodes)) = Len(graph_data.nodes)
    /\ \A k \in 1..Len(graph_data.edges) :
          /\ graph_data.edges[k].from \in Range(graph_data.nodes)
          /\ graph_data.edges[k].to \in Range(graph_data.nodes)
    /\ \A id \in BuildIds :
          id \in Range(graph_data.nodes) => add_node(graph_data, id) = graph_data
    /\ \A edge \in BuildEdges :
          (edge.from \notin Range(graph_data.nodes) \/ edge.to \notin Range(graph_data.nodes))
              => add_edge(graph_data, edge) = graph_data
    /\ ~get_adjacency_matrix(graph_data.nodes, graph_data.edges).raised
    /\ adj.called => ~adj.raised

\* The matrix has been built of a graph of three nodes, and the graph holds
\* two edges that leave different nodes.
C30_Witness ==
    /\ Len(graph_data.nodes) = 3
    /\ Len(graph_data.edges) = 2
    /\ graph_data.edges[1].from # graph_data.edges[2].from
    /\ adj.called
    /\ NumNodes(adj.matrix) = 3

(***************************************************************************)
(* database/mongo_client.py: MongoDB                                       *)
(***************************************************************************)

\* ObjectId(s) of an id string s, and str(oid).  Id strings are the numbers
\* of the ObjectIds in the order of their creation.
ObjectId(s) == <<"ObjectId", s>>

Str(oid) == oid[2]

\* None, where a document is expected.
NoDoc == <<>>

\* limit: int = 20 of get_graph_results.
ResultsLimit == 20

\* A document with field f set to v (added when it is not there).
WithField(doc, f, v) ==
    [g \in DOMAIN doc \cup {f} |-> IF g = f THEN v ELSE doc[g]]

\* create_graph(graph_data): the document is a copy of graph_data with its
\* _id (created_at is left out); returns the id string.
create_graph(d, graph) ==
    [db |-> [d EXCEPT !.graphs = Append(@, WithField(graph, "_id", ObjectId(d.next_graph))),
                      !.next_graph = @ + 1],
     id |-> d.next_graph]

\* get_graph(graph_id): find_one by ObjectId(graph_id), _id turned into a
\* string; None when there is none.
get_graph(d, graph_id) ==
    LET found == SelectSeq(d.graphs, LAMBDA g : g._id = ObjectId(graph_id))
    IN  IF found = <<>> THEN NoDoc ELSE WithField(found[1], "_id", Str(found[1]._id))

\* A deletion that leaves the search results of the graph where they are.
delete_graph_only(d, graph_id) ==
    LET found == SelectSeq(d.graphs, LAMBDA g : g._id = ObjectId(graph_id))
    IN  [db |-> [d EXCEPT !.graphs = SelectSeq(@, LAMBDA g : g._id # ObjectId(graph_id))],
         ok |-> found # <<>>]

\* delete_graph(graph_id): delete_many on search_results by
\* ObjectId(graph_id), then delete_one on graphs; True when a graph was deleted.
delete_graph(d, graph_id) ==
    LET found == SelectSeq(d.graphs, LAMBDA g : g._id = ObjectId(graph_id))
    IN  [db |-> [d EXCEPT !.search_results =
                              SelectSeq(@, LAMBDA r : r.graph_id # ObjectId(graph_id)),
                          !.graphs = SelectSeq(@, LAMBDA g : g._id # ObjectId(graph_id))],
         ok |-> found # <<>>]

\* save_search_result(result_data): graph_id is stored as an ObjectId; the
\* timestamp is the position in the collection; returns the id string.
save_search_result(d, result_data) ==
    LET doc == WithField(WithField(result_data, "graph_id", ObjectId(result_data.graph_id)),
                         "_id", ObjectId(d.next_result))
    IN  [db |-> [d EXCEPT !.search_results = Append(@, doc), !.next_result = @ + 1],
         id |-> d.next_result]

\* A sequence in reverse order.
Reverse(xs) == [i \in DOMAIN xs |-> xs[Len(xs) + 1 - i]]

\* get_graph_results(graph_id, limit): the results of the graph, the latest
\* first, at most `limit` of them, _id and graph_id turned into strings.
get_graph_results(d, graph_id, limit) ==
    LET found == Reverse(SelectSeq(d.search_results,
                                   LAMBDA r : r.graph_id = ObjectId(graph_id)))
        limited == SubSeq(found, 1, IF Len(found) < limit THEN Len(found) ELSE limit)
    IN  [i \in DOMAIN limited |->
            WithField(WithField(limited[i], "_id", Str(limited[i]._id)),
                      "graph_id", Str(limited[i].graph_id))]

(***************************************************************************)
(* Specification of the database: create_graph, save_search_result and     *)
(* delete_graph in any order, on any id.                                   *)
(***************************************************************************)

\* The largest number of graphs created, and of search results saved.
MaxGraphs == 2

MaxResults == 3

\* A-B 1, A-C 2, C-D 1: connected, B is a dead end on the way from A to D.
ForkGraph ==
    [name |-> "fork", nodes |-> <<"A", "B", "C", "D">>,
     edges |-> <<[from |-> "A", to |-> "B", weight |-> 1],
                 [from |-> "A", to |-> "C", weight |-> 2],
                 [from |-> "C", to |-> "D", weight |-> 1]>>]

\* A-B 1, C-D 1: D is not reachable from A.
SplitGraph ==
    [name |-> "split", nodes |-> <<"A", "B", "C", "D">>,
     edges |-> <<[from |-> "A", to |-> "B", weight |-> 1],
                 [from |-> "C", to |-> "D", weight |-> 1]>>]

StoredGraphs == {ForkGraph, SplitGraph}

\* SearchResult(...).to_dict() of a search on graph graph_id.
SavedResults(graph_id) ==
    {[graph_id |-> graph_id, algorithm |-> "Dijkstra", start |-> "A", end |-> "B",
      path |-> <<"A", "B">>, distance |-> 1],
     [graph_id |-> graph_id, algorithm |-> "ACO", start |-> "A", end |-> "B",
      path |-> <<"A", "B">>, distance |-> 1, iterations |-> 1]}

InitDb ==
    /\ graph_data = NoGraph
    /\ validation = NotValidated
    /\ adj = NotBuilt
    /\ adjacency_matrix = <<>>
    /\ start_idx = NoIdx
    /\ end_idx = NoIdx
    /\ dj = IdleDijkstra
    /\ aco = NoColony
    /\ run = IdleRun
    /\ validations = 0
    /\ all_results = NoAllResults
    /\ db = EmptyDb
    /\ api = IdleApi

DbCreateGraph(graph) ==
    /\ db.next_graph <= MaxGraphs
    /\ db' = create_graph(db, graph).db
    /\ UNCHANGED <<graph_data, validation, adj, adjacency_matrix, start_idx, end_idx, dj,
                   aco, run, validations, all_results, api>>

DbSaveResult(result_data) ==
    /\ db.next_result <= MaxResults
    /\ db' = save_search_result(db, result_data).db
    /\ UNCHANGED <<graph_data, validation, adj, adjacency_matrix, start_idx, end_idx, dj,
                   aco, run, validations, all_results, api>>

DbDeleteGraph(graph_id) ==
    /\ db' = delete_graph(db, graph_id).db
    /\ UNCHANGED <<graph_data, validation, adj, adjacency_matrix, start_idx, end_idx, dj,
                   aco, run, validations, all_results, api>>

\* The id strings in use, and the next one, which is the id of no graph yet.
GraphIdStrings == 1..db.next_graph

NextDb ==
    \/ \E graph \in StoredGraphs : DbCreateGraph(graph)
    \/ \E graph_id \in GraphIdStrings : \E result_data \in SavedResults(graph_id) :
          DbSaveResult(result_data)
    \/ \E graph_id \in GraphIdStrings : DbDeleteGraph(graph_id)

SpecDb == InitDb /\ [][NextDb]_vars

(***************************************************************************)
(* Claims about the database                                               *)
(***************************************************************************)

\* A step that is delete_graph(g) on an existing graph g.
DeletesGraph(g) ==
    /\ get_graph(db, g) # NoDoc
    /\ db' = delete_graph(db, g).db

MaxRequests == 1

\* None (JSON null) in a numeric field of a result.
Null == -2

\* num_ants and iterations of the 'parameters' of a request.
SearchAnts == 1

SearchIterations == 1

\* _run_aco: the parameters of the request over Config.DEFAULT_ACO_PARAMS
\* (alpha 1.0, beta 5.0, evaporation 0.5); q is left to the default of __init__.
SearchParams ==
    [num_ants |-> SearchAnts, alpha |-> 1, beta |-> 5, evaporation |-> <<1, 2>>,
     iterations |-> SearchIterations, q |-> <<100, 1>>]

\* The 'parameters' dict of a request.
RequestParameters == [num_ants |-> SearchAnts, iterations |-> SearchIterations]

\* distance if distance != float('inf') else None
DistanceOrNone(distance) == IF distance # Inf THEN distance ELSE Null

\* The dict _run_aco returns (execution_time is left out).
run_aco_result(path, distance, history, params) ==
    [algorithm |-> "ACO", path |-> path, distance |-> DistanceOrNone(distance),
     iterations |-> params.iterations, history |-> history,
     parameters |-> [num_ants |-> params.num_ants, alpha |-> params.alpha,
                     beta |-> params.beta, evaporation |-> params.evaporation,
                     iterations |-> params.iterations]]

\* The dict _run_dijkstra returns (execution_time is left out).
run_dijkstra_result(matrix, s, e) ==
    LET found == dijkstra_find_shortest_path(matrix, s, e)
    IN  [algorithm |-> "Dijkstra", path |-> found.path,
         distance |-> DistanceOrNone(found.distance)]

\* SearchResult(graph_id, algorithm, start, end, path, distance,
\* iterations=result.get('iterations'), parameters=...).to_dict(): iterations
\* is there unless None, parameters unless empty.
search_result_dict(req, result, parameters) ==
    LET base == [graph_id |-> req.graph_id, algorithm |-> result.algorithm,
                 start |-> req.start, end |-> req.end,
                 path |-> result.path, distance |-> result.distance]
        with_iterations == IF "iterations" \in DOMAIN result
                           THEN WithField(base, "iterations", result.iterations)
                           ELSE base
    IN  IF parameters # <<>> THEN WithField(with_iterations, "parameters", parameters)
        ELSE with_iterations

\* abs(a - d) if a and d else None: None and 0 are both falsy.
distance_difference(a, d) ==
    IF a # Null /\ a # 0 /\ d # Null /\ d # 0 THEN Abs(a - d) ELSE Null

\* The state of the endpoint once request.get_json() has returned req.
Accepted(endpoint, req) ==
    [pc |-> "handling", requests |-> api.requests + 1, endpoint |-> endpoint,
     request |-> req, saved |-> 0, status |-> 0, body |-> <<>>]

\* return jsonify({'error': ...}), status, with no solver started and
\* nothing saved.
Rejected(a, status, error) ==
    /\ api' = [a EXCEPT !.pc = "responded", !.status = status, !.body = [error |-> error]]
    /\ UNCHANGED <<db, adjacency_matrix, start_idx, end_idx, aco, run>>

\* _run_aco up to the first ant: the instance is constructed and its
\* find_shortest_path has looked up start and end.
StartAco(a, built, req) ==
    /\ adjacency_matrix' = built.matrix
    /\ start_idx' = built.node_to_idx[req.start]
    /\ end_idx' = built.node_to_idx[req.end]
    /\ aco' = NewColony(built.matrix, SearchParams)
    /\ run' = StartAnt([IdleRun EXCEPT !.calls = 1], built.node_to_idx[req.start])
    /\ api' = [a EXCEPT !.pc = "aco"]
    /\ UNCHANGED db

\* run_search with algorithm 'Dijkstra': run, save, answer 200.
RunDijkstra(a, built, req) ==
    LET result == run_dijkstra_result(built.matrix, built.node_to_idx[req.start],
                                      built.node_to_idx[req.end])
        saved == save_search_result(db, search_result_dict(req, result, RequestParameters))
    IN  /\ db' = saved.db
        /\ api' = [a EXCEPT !.pc = "responded", !.saved = 1, !.status = 200,
                            !.body = WithField(WithField(result, "result_id", saved.id),
                                               "graph_id", req.graph_id)]
        /\ UNCHANGED <<adjacency_matrix, start_idx, end_idx, aco, run>>

\* POST /api/search/run, up to the response or, for ACO, up to the first ant.
RunSearch(req) ==
    /\ api.pc \in {"idle", "responded"}
    /\ api.requests < MaxRequests
    /\ LET a == Accepted("run", req)
           graph == get_graph(db, req.graph_id)
       IN  IF ~req.complete THEN Rejected(a, 400, "field")
           ELSE IF graph = NoDoc THEN Rejected(a, 404, "graph")
           ELSE IF req.start \notin Range(graph.nodes) THEN Rejected(a, 400, "start")
           ELSE IF req.end \notin Range(graph.nodes) THEN Rejected(a, 400, "end")
           ELSE LET built == get_adjacency_matrix(graph.nodes, graph.edges)
                IN  IF built.raised THEN Rejected(a, 500, "KeyError")
                    ELSE IF req.algorithm = "ACO" THEN StartAco(a, built, req)
                    ELSE IF req.algorithm = "Dijkstra" THEN RunDijkstra(a, built, req)
                    ELSE Rejected(a, 400, "algorithm")
    /\ UNCHANGED <<graph_data, validation, adj, dj, validations, all_results>>

\* _run_aco with a start or end that is no key of node_to_idx: the instance
\* is constructed, find_shortest_path raises KeyError, the handler answers 500.
AcoKeyError(a, built) ==
    /\ adjacency_matrix' = built.matrix
    /\ aco' = NewColony(built.matrix, SearchParams)
    /\ api' = [a EXCEPT !.pc = "responded", !.status = 500, !.body = [error |-> "KeyError"]]
    /\ UNCHANGED <<db, start_idx, end_idx, run>>

\* POST /api/search/compare, up to the response or the first ant.  A missing
\* field raises KeyError.
CompareAlgorithms(req) ==
    /\ api.pc \in {"idle", "responded"}
    /\ api.requests < MaxRequests
    /\ LET a == Accepted("compare", req)
           graph == get_graph(db, req.graph_id)
       IN  IF ~req.complete THEN Rejected(a, 500, "KeyError")
           ELSE IF graph = NoDoc THEN Rejected(a, 404, "graph")
           ELSE LET built == get_adjacency_matrix(graph.nodes, graph.edges)
                IN  IF built.raised THEN Rejected(a, 500, "KeyError")
                    ELSE IF req.start \notin DOMAIN built.node_to_idx
                            \/ req.end \notin DOMAIN built.node_to_idx
                         THEN AcoKeyError(a, built)
                         ELSE StartAco(a, built, req)
    /\ UNCHANGED <<graph_data, validation, adj, dj, validations, all_results>>

\* aco.find_shortest_path has returned in run_search: save, answer 200.
RunAcoReturns ==
    /\ api.pc = "aco" /\ api.endpoint = "run"
    /\ run.pc = "done"
    /\ LET result == run_aco_result(run.ret_path, run.ret_distance, aco.history, aco)
           saved == save_search_result(
                        db, search_result_dict(api.request, result, RequestParameters))
       IN  /\ db' = saved.db
           /\ api' = [api EXCEPT !.pc = "responded", !.saved = 1, !.status = 200,
                                 !.body = WithField(WithField(result, "result_id", saved.id),
                                                    "graph_id", api.request.graph_id)]
    /\ UNCHANGED <<graph_data, validation, adj, adjacency_matrix, start_idx, end_idx, dj,
                   aco, run, validations, all_results>>

\* aco.find_shortest_path has returned in compare_algorithms: run Dijkstra,
\* save both results, answer 200 with the comparison (time_difference is
\* left out).
CompareAcoReturns ==
    /\ api.pc = "aco" /\ api.endpoint = "compare"
    /\ run.pc = "done"
    /\ LET aco_result == run_aco_result(run.ret_path, run.ret_distance, aco.history, aco)
           dijkstra_result == run_dijkstra_result(adjacency_matrix, start_idx, end_idx)
           saved1 == save_search_result(
                         db, search_result_dict(api.request, aco_result,
                                                aco_result.parameters))
           saved2 == save_search_result(
                         saved1.db, search_result_dict(api.request, dijkstra_result, <<>>))
       IN  /\ db' = saved2.db
           /\ api' = [api EXCEPT
                         !.pc = "responded", !.saved = 2, !.status = 200,
                         !.body = [aco |-> aco_result, dijkstra |-> dijkstra_result,
                                   comparison |->
                                       [distance_difference |->
                                            distance_difference(aco_result.distance,
                                                                dijkstra_result.distance),
                                        same_path |->
                                            aco_result.path = dijkstra_result.path]]]
    /\ UNCHANGED <<graph_data, validation, adj, adjacency_matrix, start_idx, end_idx, dj,
                   aco, run, validations, all_results>>

\* aco.find_shortest_path has raised: the handler answers 500.
SearchAcoRaises ==
    /\ api.pc = "aco"
    /\ run.pc = "raised"
    /\ api' = [api EXCEPT !.pc = "responded", !.status = 500,
                          !.body = [error |-> "ZeroDivisionError"]]
    /\ UNCHANGED <<graph_data, validation, adj, adjacency_matrix, start_idx, end_idx, dj,
                   aco, run, validations, all_results, db>>

(***************************************************************************)
(* Specification of the search endpoints: a database with one stored       *)
(* graph, then requests to /run and /compare.                              *)
(***************************************************************************)

\* Node ids of a request: three nodes of the stored graph, one of no graph.
RequestNodes == {"A", "B", "D", "Z"}

\* The requests: one that lacks a required field; else the id of the stored
\* graph or of no graph, a known or an unknown algorithm, any start and end.
RunRequests ==
    {[complete |-> FALSE, graph_id |-> 1, algorithm |-> "ACO", start |-> "A", end |-> "B"]}
    \cup {[complete |-> TRUE, graph_id |-> g, algorithm |-> alg, start |-> s, end |-> e] :
            g \in {1, 2}, alg \in {"ACO", "Dijkstra", "BFS"},
            s \in RequestNodes, e \in RequestNodes}

CompareRequests ==
    {[complete |-> FALSE, graph_id |-> 1, algorithm |-> "", start |-> "A", end |-> "B"]}
    \cup {[complete |-> TRUE, graph_id |-> g, algorithm |-> "", start |-> s, end |-> e] :
            g \in {1, 2}, s \in RequestNodes, e \in RequestNodes}

InitSearch ==
    /\ graph_data = NoGraph
    /\ validation = NotValidated
    /\ adj = NotBuilt
    /\ adjacency_matrix = <<>>
    /\ start_idx = NoIdx
    /\ end_idx = NoIdx
    /\ dj = IdleDijkstra
    /\ aco = NoColony
    /\ run = IdleRun
    /\ validations = 0
    /\ all_results = NoAllResults
    /\ \E graph \in StoredGraphs : db = create_graph(EmptyDb, graph).db
    /\ api = IdleApi

NextSearch ==
    \/ \E req \in RunRequests : RunSearch(req)
    \/ \E req \in CompareRequests : CompareAlgorithms(req)
    \/ \E next_node \in DOMAIN adjacency_matrix : AntMove(next_node)
    \/ AntDeadEnd
    \/ AntReturn
    \/ UpdatePheromones
    \/ UpdateRaises
    \/ RunAcoReturns
    \/ CompareAcoReturns
    \/ SearchAcoRaises

SpecSearch == InitSearch /\ [][NextSearch]_vars

(***************************************************************************)
(* Claims about the search endpoints                                       *)
(***************************************************************************)

\* The results in the body of a 200 response.
ResponseResults ==
    IF api.endpoint = "run" THEN {api.body} ELSE {api.body.aco, api.body.dijkstra}

\* C16: in the result the search API builds for a run, the distance is null
\* exactly when no path was found, and no numeric field holds infinity, the
\* best_distance of the history samples included.
C16_NoInfinityInResult ==
    (api.pc = "responded" /\ api.status = 200) =>
        \A result \in ResponseResults :
            /\ result.distance = Null <=> result.path = <<>>
            /\ result.distance # Inf
            /\ "history" \in DOMAIN result =>
                  \A k \in DOMAIN result.history : result.history[k].best_distance # Inf

\* C17: a request to /run or /compare whose start or end is no node of the
\* stored graph is answered with status 400 and stores no search result.
C17_UnknownIdRejected ==
    (/\ api.pc = "responded"
     /\ api.request.complete
     /\ get_graph(db, api.request.graph_id) # NoDoc
     /\ \/ api.request.start \notin Range(get_graph(db, api.request.graph_id).nodes)
        \/ api.request.end \notin Range(get_graph(db, api.request.graph_id).nodes)) =>
        /\ api.status = 400
        /\ api.saved = 0

====
